---------------------------- MODULE Spec2Model ----------------------------
(***************************************************************************)
(* A model of the buttplug server core:                                    *)
(*                                                                         *)
(*   - the device manager event loop                                       *)
(*       src/buttplug/src/server/device_manager_event_loop.rs              *)
(*     (specification Spec),                                               *)
(*   - the Lovehoney Desire protocol command handler                       *)
(*       src/buttplug/src/device/protocol/lovehoney_desire.rs              *)
(*     (specifications SpecDesire, one call at a time, and                 *)
(*     SpecDesireConcurrent, two calls at a time),                         *)
(*   - the Lovense HID dongle communication manager and its two I/O        *)
(*     threads                                                             *)
(*       src/buttplug/src/server/comm_managers/lovense_dongle/             *)
(*         lovense_hid_dongle_comm_manager.rs                              *)
(*     (specifications SpecHidManager, SpecHidWriter, SpecHidReader and,   *)
(*     with fair thread steps, SpecHidThreads), and                        *)
(*   - run_server of the remote server                                     *)
(*       src/buttplug/src/server/remote_server.rs                          *)
(*     (specifications SpecRemote and, with a fair select!,                *)
(*     SpecRemoteFair).                                                    *)
(*                                                                         *)
(* The parts share no state; each specification leaves the variables of    *)
(* the other parts at their initial values.  The loop is checked in parts  *)
(* that share no state either: device registration (SpecDevices), the      *)
(* scan lifecycle (SpecScanning), and the ping timeout and the end of run  *)
(* (SpecPing, SpecRun); Spec is the whole loop.  SpecScanningFair is the   *)
(* scan lifecycle with a comm channel that is served.                      *)
(***************************************************************************)
EXTENDS Integers, Sequences, FiniteSets, TLC

(***************************************************************************)
(* Bounds of the model.                                                    *)
(***************************************************************************)
\* Device addresses are 1..NumAddresses.
NumAddresses == 2
\* Total number of DeviceFound emissions (each carries its own creator, so
\* it is also the number of device instances that can ever exist).
MaxDevices == 2
\* Communication managers are 1..NumManagers.
NumManagers == 2
\* Capacity used for the two mpsc channels of the loop (the code uses 256).
ChannelCap == 2
\* Number of times the ping timer expires.
MaxPings == 1
\* Number of Notification events the devices emit.
MaxNotifications == 1
\* Number of StartScanning commands a manager's state machine has yet to take.
MaxStartCommands == 1

Addresses == 1..NumAddresses
Managers == 1..NumManagers
Creators == 1..MaxDevices

VARIABLES
  \* ---- DeviceManagerEventLoop fields
  device_index_generator,          \* u32 counter
  device_map,                      \* index -> device (a function whose DOMAIN is the key set)
  device_index_map,                \* address -> index
  device_allow_list,               \* set of addresses
  device_deny_list,                \* set of addresses
  scanning_in_progress,            \* bool
  comm_manager_scanning_statuses,  \* sequence of the registered status atomics (by manager)
  device_comm_receiver,            \* mpsc channel of DeviceCommunicationEvent
  device_event_receiver,           \* mpsc channel of ButtplugDeviceEvent
  server_sender,                   \* messages the last handler run gave to server_sender.send
  handled,                         \* the message the last handler run was given
  loop_state,                      \* "running" | "disconnecting" | "panicked" | "exited"
  \* ---- tasks and collaborators of the loop
  creating,                        \* device-creation tasks spawned by try_create_new_device
  forwarding,                      \* devices with an event-forwarding task
  event_stream,                    \* the events in the event streams of the devices, not yet forwarded
  notifications_made,              \* number of Notification events the devices have emitted so far
  disconnected,                    \* devices that have emitted their one Removed event
  scanning_status,                 \* manager -> the value of its AtomicBool
  manager_state,                   \* manager -> "absent" | "idle" | "scanning" | "finishing"
  start_commands,                  \* manager -> StartScanning commands its state machine has not taken yet
  creators_used,                   \* number of DeviceFound events emitted so far
  ping_pending,                    \* the ping timer has expired and run has not yet seen it
  pings_fired,                     \* number of ping timeouts so far
  stop_futures,                    \* devices whose StopDeviceCmd future the ping task still polls
  stop_done,                       \* the last StopDeviceCmd future that completed, with its result
  comm_closed,                     \* every sender of device_comm_receiver has been dropped
  \* ---- one Lovehoney Desire device: its command cache and the handler calls in flight
  gcm_current,                     \* GenericCommandManager: actuator -> last value, None or Some(q)
  gcm_lock,                        \* the Mutex around the manager: 0, or the task that holds it
  pc,                              \* task -> "idle" | "lock" | "locked" | "write" | "writing" | "done"
  call,                            \* task -> the command of its current (or last) call
  cmds,                            \* task -> what update_vibration returned to the call
  fut_vec,                         \* task -> the writes of the call not yet awaited
  written,                         \* task -> the writes of the call that reached the transport
  ret,                             \* task -> "pending" | "ok" | "err": what the call returned
  update_order,                    \* the calls in flight that have updated the cache, oldest first
  \* ---- one LovenseHIDDongleCommunicationManager with its tasks and threads
  dongle_present,                  \* whether api.open finds the HID dongle
  find_dongle,                     \* the finder task: "spawned" | "sending" | "found" | "failed"
  is_scanning,                     \* the manager's scanning status (AtomicBool)
  machine_receiver,                \* channel of LovenseDeviceCommand to the state machine
  machine,                         \* "WaitingForDongle" | "Idle" | "Scanning" | "Terminated"
  hid_events,                      \* what the manager has sent on its event_sender, in order
  scan_calls,                      \* number of start_scanning and stop_scanning calls so far
  scan_futures,                    \* the futures those calls returned: how many of each are
                                   \* not yet complete, and how many have panicked
  token_cancelled,                 \* thread_cancellation_token
  writer_receiver,                 \* channel of outbound messages to the writer thread
  writer_pc,                       \* "not_started" | "waiting" | "writing" | "exited" | "panicked"
  writer_msg,                      \* the message port_write is writing (or wrote last)
  writer_chunks,                   \* the chunks of it not yet written
  hid_written,                     \* the reports written to the dongle for writer_msg
  writes_made,                     \* number of outbound messages so far
  reader_pc,                       \* "not_started" | "starting" | "checking" | "reading" | "sending" | "exited" | "panicked"
  data,                            \* the reader's String buffer
  hid_consumed,                    \* every byte the reader has appended to data, in order
  reads_made,                      \* number of non-empty reads so far
  stream,                          \* parsed messages of the current record not yet sent
  reader_channel,                  \* channel of incoming messages to the state machine
  forwarded,                       \* every message the reader has sent, in order
  consumer,                        \* reader_receiver: "consuming" | "stalled" | "dropped"
  \* ---- run_server of the remote server
  connector_receiver,              \* items the connector has delivered and run_server has not taken
  requests_made,                   \* number of items the connector has delivered so far
  reply_tasks,                     \* spawned tasks: item -> "running" | "done" | "panicked"
  connector_sent,                  \* what was sent back on the connector, in order
  remote_loop,                     \* "running" | "forwarding" | "exited"
  connector_open,                  \* the remote end of the connector is there
  server_receiver,                 \* server events run_server has not taken yet
  events_made,                     \* number of events the server has emitted so far
  server_closed,                   \* the sender of server_receiver has been dropped
  controller,                      \* controller_receiver: "idle" | "command" | "closed"
  disconnect_calls,                \* number of server.disconnect() calls so far
  server_msg                       \* the server event run_server is sending on the connector

loop_vars ==
  << device_index_generator, device_map, device_index_map, device_allow_list,
     device_deny_list, scanning_in_progress, comm_manager_scanning_statuses,
     device_comm_receiver, device_event_receiver, server_sender, handled,
     loop_state, creating, forwarding, event_stream, notifications_made, disconnected,
     scanning_status, manager_state, start_commands, creators_used, ping_pending,
     pings_fired, stop_futures, stop_done, comm_closed >>

\* The ping timer, the task handle_ping_timeout spawns, and the senders of the comm channel
run_vars == << ping_pending, pings_fired, stop_futures, stop_done, comm_closed >>

desire_vars ==
  << gcm_current, gcm_lock, pc, call, cmds, fut_vec, written, ret, update_order >>

dongle_vars ==
  << dongle_present, find_dongle, is_scanning, machine_receiver, machine, hid_events,
     scan_calls, scan_futures >>

writer_vars ==
  << writer_receiver, writer_pc, writer_msg, writer_chunks, hid_written, writes_made >>

reader_vars ==
  << reader_pc, data, hid_consumed, reads_made, stream, reader_channel, forwarded,
     consumer >>

hid_vars == << dongle_vars, token_cancelled, writer_vars, reader_vars >>

remote_vars ==
  << connector_receiver, requests_made, reply_tasks, connector_sent, remote_loop,
     connector_open, server_receiver, events_made, server_closed, controller,
     disconnect_calls, server_msg >>

\* The ends of the three channels of run_server that other tasks hold
remote_env_vars ==
  << connector_open, server_receiver, events_made, server_closed, controller >>

\* The parts of the model share no state: what the actions of each part leave alone.
not_loop_vars == << desire_vars, hid_vars, remote_vars >>
not_desire_vars == << loop_vars, hid_vars, remote_vars >>
not_hid_vars == << loop_vars, desire_vars, remote_vars >>
not_remote_vars == << loop_vars, desire_vars, hid_vars >>

vars == << loop_vars, desire_vars, hid_vars, remote_vars >>

(***************************************************************************)
(* Values.                                                                 *)
(***************************************************************************)
\* A device instance: the creator it was built from and its address.
Device(id, address) == [id |-> id, address |-> address]

\* DeviceCommunicationEvent
ScanningStartedEvent == [type |-> "ScanningStarted", address |-> 0, creator |-> 0, status |-> 0]
ScanningFinishedEvent == [type |-> "ScanningFinished", address |-> 0, creator |-> 0, status |-> 0]
DeviceFoundEvent(address, creator) ==
  [type |-> "DeviceFound", address |-> address, creator |-> creator, status |-> 0]
DeviceManagerAddedEvent(m) ==
  [type |-> "DeviceManagerAdded", address |-> 0, creator |-> 0, status |-> m]

\* ButtplugDeviceEvent
ConnectedEvent(device) == [type |-> "Connected", id |-> device.id, address |-> device.address]
NotificationEvent(address) == [type |-> "Notification", id |-> 0, address |-> address]
RemovedEvent(address) == [type |-> "Removed", id |-> 0, address |-> address]

\* The ping timeout branch of run, as the thing the last handler run was given
PingTimeoutEvent == [type |-> "PingTimeout"]

\* Before the first handler run
NoEvent == [type |-> "None"]

\* A future device.parse_message(StopDeviceCmd) made by the ping timeout number ping
StopFuture(ping, device) == [ping |-> ping, device |-> device]

\* Before the first StopDeviceCmd future completes
NoStop == [fut |-> StopFuture(0, Device(0, 0)), result |-> "none"]

\* ButtplugServerMessage
DeviceAddedMsg(index) == [type |-> "DeviceAdded", index |-> index]
DeviceRemovedMsg(index) == [type |-> "DeviceRemoved", index |-> index]
ScanningFinishedMsg == [type |-> "ScanningFinished", index |-> 0]

\* DashMap operations
MapInsert(m, k, v) == [x \in DOMAIN m \cup {k} |-> IF x = k THEN v ELSE m[x]]
MapRemove(m, k) == [x \in DOMAIN m \ {k} |-> m[x]]
EmptyMap == [x \in {} |-> 0]


(***************************************************************************)
(* Construction: DeviceManagerEventLoop::new.  The allow and deny lists    *)
(* are supplied by the server at construction.                             *)
(***************************************************************************)
\* The lists a server is constructed with: no list, or a list of one address (for the
\* deny list, the address the allow list holds or another one).
AllowLists == { {}, {1} }
DenyLists == { {}, {1}, {NumAddresses} }

LoopInit ==
  /\ device_index_generator = 0
  /\ device_map = EmptyMap
  /\ device_index_map = EmptyMap
  /\ device_allow_list \in AllowLists
  /\ device_deny_list \in DenyLists
  /\ scanning_in_progress = FALSE
  /\ comm_manager_scanning_statuses = << >>
  /\ device_comm_receiver = << >>
  /\ device_event_receiver = << >>
  /\ server_sender = << >>
  /\ handled = NoEvent
  /\ loop_state = "running"
  /\ creating = {}
  /\ forwarding = {}
  /\ event_stream = {}
  /\ notifications_made = 0
  /\ disconnected = {}
  /\ scanning_status = [m \in Managers |-> FALSE]
  /\ manager_state = [m \in Managers |-> "absent"]
  /\ start_commands = [m \in Managers |-> 0]
  /\ creators_used = 0
  /\ ping_pending = FALSE
  /\ pings_fired = 0
  /\ stop_futures = {}
  /\ stop_done = NoStop
  /\ comm_closed = FALSE

(***************************************************************************)
(* Conditions of handle_device_communication and handle_device_event.      *)
(***************************************************************************)
\* A deny list that is never consulted.
IsDenied_ignored(address) == FALSE

\* for denied_device in self.device_deny_list.iter() { if *denied_device == address { return } }
IsDenied(address) == address \in device_deny_list

\* the allow-list block: passes when the list is empty or holds the address
IsAllowed(address) == device_allow_list = {} \/ address \in device_allow_list

\* A connected-device check that finds nothing.
AlreadyConnected_never(address) == FALSE

\* for device_entry in self.device_map.iter() { if device_entry.value().address() == address { return } }
AlreadyConnected(address) ==
  \E i \in DOMAIN device_map : device_map[i].address = address

\* A ScanningFinished arm without the early return.
FinishedBeforeStarted_unchecked == FALSE

\* if !self.scanning_in_progress { return; }
FinishedBeforeStarted == ~scanning_in_progress

\* A status check that finds no manager scanning.
AnyManagerScanning_never == FALSE

\* self.comm_manager_scanning_statuses.iter().any(|x| x.load(Ordering::SeqCst))
AnyManagerScanning ==
  \E i \in 1..Len(comm_manager_scanning_statuses) :
    scanning_status[comm_manager_scanning_statuses[i]]

\* An index lookup that always takes the freshly generated index.
DeviceIndexFor_fresh(address, generated_device_index) == generated_device_index

\* the reusable-index lookup of the Connected arm
DeviceIndexFor(address, generated_device_index) ==
  IF address \in DOMAIN device_index_map
    THEN device_index_map[address]
    ELSE generated_device_index

\* An index map that records the generated index on every connect.
IndexMapAfter_overwrite(address, generated_device_index) ==
  MapInsert(device_index_map, address, generated_device_index)

\* the index map after the lookup: the address is recorded when it was absent
IndexMapAfter(address, generated_device_index) ==
  IF address \in DOMAIN device_index_map
    THEN device_index_map
    ELSE MapInsert(device_index_map, address, generated_device_index)

(***************************************************************************)
(* run: one iteration of the select! loop takes one message from one of    *)
(* the two channels and runs its handler to completion.                    *)
(***************************************************************************)
CommHead(type) ==
  /\ loop_state = "running"
  /\ device_comm_receiver # << >>
  /\ Head(device_comm_receiver).type = type

EventHead(type) ==
  /\ loop_state = "running"
  /\ device_event_receiver # << >>
  /\ Head(device_event_receiver).type = type

env_vars ==
  << forwarding, event_stream, notifications_made, disconnected, scanning_status,
     manager_state, start_commands, creators_used, run_vars, not_loop_vars >>

\* DeviceCommunicationEvent::ScanningStarted
HandleScanningStarted ==
  /\ CommHead("ScanningStarted")
  /\ device_comm_receiver' = Tail(device_comm_receiver)
  /\ handled' = Head(device_comm_receiver)
  /\ scanning_in_progress' = TRUE
  /\ server_sender' = << >>
  /\ UNCHANGED << device_index_generator, device_map, device_index_map, device_allow_list,
                  device_deny_list, comm_manager_scanning_statuses, device_event_receiver,
                  loop_state, creating, env_vars >>

\* A session that the broadcast leaves open.
ScanningAfterBroadcast_left_open == TRUE

\* self.scanning_in_progress = false
ScanningAfterBroadcast == FALSE

\* DeviceCommunicationEvent::ScanningFinished
HandleScanningFinished ==
  /\ CommHead("ScanningFinished")
  /\ device_comm_receiver' = Tail(device_comm_receiver)
  /\ handled' = Head(device_comm_receiver)
  /\ IF FinishedBeforeStarted
       THEN /\ server_sender' = << >>
            /\ UNCHANGED scanning_in_progress
       ELSE IF AnyManagerScanning
         THEN /\ server_sender' = << >>
              /\ UNCHANGED scanning_in_progress
         ELSE /\ scanning_in_progress' = ScanningAfterBroadcast
              /\ server_sender' = << ScanningFinishedMsg >>
  /\ UNCHANGED << device_index_generator, device_map, device_index_map, device_allow_list,
                  device_deny_list, comm_manager_scanning_statuses, device_event_receiver,
                  loop_state, creating, env_vars >>

\* DeviceCommunicationEvent::DeviceFound, with try_create_new_device
HandleDeviceFound ==
  /\ CommHead("DeviceFound")
  /\ device_comm_receiver' = Tail(device_comm_receiver)
  /\ handled' = Head(device_comm_receiver)
  /\ server_sender' = << >>
  /\ LET ev == Head(device_comm_receiver) IN
       IF IsDenied(ev.address)
         THEN UNCHANGED creating
         ELSE IF ~IsAllowed(ev.address)
           THEN UNCHANGED creating
           ELSE IF AlreadyConnected(ev.address)
             THEN UNCHANGED creating
             ELSE creating' = creating \cup {Device(ev.creator, ev.address)}
  /\ UNCHANGED << device_index_generator, device_map, device_index_map, device_allow_list,
                  device_deny_list, scanning_in_progress, comm_manager_scanning_statuses,
                  device_event_receiver, loop_state, env_vars >>

\* DeviceCommunicationEvent::DeviceManagerAdded
HandleDeviceManagerAdded ==
  /\ CommHead("DeviceManagerAdded")
  /\ device_comm_receiver' = Tail(device_comm_receiver)
  /\ handled' = Head(device_comm_receiver)
  /\ comm_manager_scanning_statuses' =
       Append(comm_manager_scanning_statuses, Head(device_comm_receiver).status)
  /\ server_sender' = << >>
  /\ UNCHANGED << device_index_generator, device_map, device_index_map, device_allow_list,
                  device_deny_list, scanning_in_progress, device_event_receiver,
                  loop_state, creating, env_vars >>

\* ButtplugDevice::disconnect of the ejected device: it emits Removed(address) on its
\* event stream unless it already has (the device emits Removed exactly once).
DisconnectEmits(old_device) == old_device \notin disconnected

\* An event in the event stream of a device
StreamEvent(device, type) == [device |-> device, type |-> type]

\* ButtplugDeviceEvent::Connected.  Without a collision the arm runs to its end: the
\* forwarding task is spawned, the device inserted and DeviceAdded broadcast.  With a
\* collision it runs up to old_device.disconnect().await: the old device is out of
\* device_map and its disconnect is under way; the rest follows in
\* HandleConnectedResumes.
HandleConnected ==
  /\ EventHead("Connected")
  /\ device_event_receiver' = Tail(device_event_receiver)
  /\ handled' = Head(device_event_receiver)
  /\ LET ev == Head(device_event_receiver)
         device == Device(ev.id, ev.address)
         generated_device_index == device_index_generator
         device_index == DeviceIndexFor(device.address, generated_device_index)
         collision == device_index \in DOMAIN device_map
         old_device == device_map[device_index]
     IN
       /\ device_index_generator' = device_index_generator + 1
       /\ device_index_map' = IndexMapAfter(device.address, generated_device_index)
       /\ IF collision
            THEN /\ device_map' = MapRemove(device_map, device_index)
                 /\ IF DisconnectEmits(old_device)
                      THEN /\ disconnected' = disconnected \cup {old_device}
                           /\ event_stream' =
                                IF old_device \in forwarding
                                  THEN event_stream \cup {StreamEvent(old_device, "Removed")}
                                  ELSE event_stream
                      ELSE UNCHANGED << disconnected, event_stream >>
                 /\ loop_state' = "disconnecting"
                 /\ server_sender' = << >>
                 /\ UNCHANGED forwarding
            ELSE /\ forwarding' = forwarding \cup {device}
                 /\ device_map' = MapInsert(device_map, device_index, device)
                 /\ server_sender' = << DeviceAddedMsg(device_index) >>
                 /\ UNCHANGED << disconnected, event_stream, loop_state >>
  /\ UNCHANGED << device_allow_list, device_deny_list, scanning_in_progress,
                  comm_manager_scanning_statuses, device_comm_receiver, creating,
                  notifications_made, scanning_status, manager_state, start_commands,
                  creators_used, run_vars, not_loop_vars >>

\* old_device.disconnect().await has completed: the rest of the Connected arm, for the
\* device of the event the loop is handling.
HandleConnectedResumes ==
  /\ loop_state = "disconnecting"
  /\ LET device == Device(handled.id, handled.address)
         device_index == device_index_map[device.address]
     IN
       /\ forwarding' = forwarding \cup {device}
       /\ device_map' = MapInsert(device_map, device_index, device)
       /\ server_sender' = << DeviceAddedMsg(device_index) >>
  /\ loop_state' = "running"
  /\ UNCHANGED << device_index_generator, device_index_map, device_allow_list,
                  device_deny_list, scanning_in_progress, comm_manager_scanning_statuses,
                  device_comm_receiver, device_event_receiver, handled, creating,
                  event_stream, notifications_made, disconnected, scanning_status,
                  manager_state, start_commands, creators_used, run_vars, not_loop_vars >>

\* ButtplugDeviceEvent::Notification: the arm is empty.
HandleNotification ==
  /\ EventHead("Notification")
  /\ device_event_receiver' = Tail(device_event_receiver)
  /\ handled' = Head(device_event_receiver)
  /\ server_sender' = << >>
  /\ UNCHANGED << device_index_generator, device_map, device_index_map, device_allow_list,
                  device_deny_list, scanning_in_progress, comm_manager_scanning_statuses,
                  device_comm_receiver, loop_state, creating, env_vars >>

\* ButtplugDeviceEvent::Removed: both lookups are unwrapped, so a missing entry panics
\* the task that runs the loop.
HandleRemoved ==
  /\ EventHead("Removed")
  /\ device_event_receiver' = Tail(device_event_receiver)
  /\ handled' = Head(device_event_receiver)
  /\ LET address == Head(device_event_receiver).address IN
       IF address \notin DOMAIN device_index_map
         THEN /\ loop_state' = "panicked"
              /\ server_sender' = << >>
              /\ UNCHANGED device_map
         ELSE LET device_index == device_index_map[address] IN
           IF device_index \notin DOMAIN device_map
             THEN /\ loop_state' = "panicked"
                  /\ server_sender' = << >>
                  /\ UNCHANGED device_map
             ELSE /\ device_map' = MapRemove(device_map, device_index)
                  /\ server_sender' = << DeviceRemovedMsg(device_index) >>
                  /\ UNCHANGED loop_state
  /\ UNCHANGED << device_index_generator, device_index_map, device_allow_list,
                  device_deny_list, scanning_in_progress, comm_manager_scanning_statuses,
                  device_comm_receiver, creating, env_vars >>

(***************************************************************************)
(* The tasks the loop spawns.                                              *)
(***************************************************************************)
\* The loop has not ended: it holds device_event_receiver.
LoopAlive == loop_state \in {"running", "disconnecting"}

\* try_create_new_device, Ok(Some(device)): the task sends Connected to the loop.
CreateDeviceConnected(device) ==
  /\ device \in creating
  /\ LoopAlive
  /\ Len(device_event_receiver) < ChannelCap
  /\ creating' = creating \ {device}
  /\ device_event_receiver' = Append(device_event_receiver, ConnectedEvent(device))
  /\ UNCHANGED << device_index_generator, device_map, device_index_map, device_allow_list,
                  device_deny_list, scanning_in_progress, comm_manager_scanning_statuses,
                  device_comm_receiver, server_sender, handled, loop_state, env_vars >>

\* try_create_new_device, Ok(None) or Err(e), or a send of Connected that fails because
\* the loop is gone: logged, the device is dropped.
CreateDeviceDropped(device) ==
  /\ device \in creating
  /\ creating' = creating \ {device}
  /\ UNCHANGED << device_index_generator, device_map, device_index_map, device_allow_list,
                  device_deny_list, scanning_in_progress, comm_manager_scanning_statuses,
                  device_comm_receiver, device_event_receiver, server_sender, handled,
                  loop_state, env_vars >>

\* The events of a device that its forwarding task has not received yet
PendingEvents(device) == { e \in event_stream : e.device = device }

\* event_listener.recv() of the forwarding task: the oldest event of the stream (a
\* device emits nothing after its Removed)
NextEvent(device) ==
  IF StreamEvent(device, "Notification") \in event_stream
    THEN StreamEvent(device, "Notification")
    ELSE StreamEvent(device, "Removed")

\* The event as the loop receives it
DeviceEventOf(e) ==
  IF e.type = "Notification"
    THEN NotificationEvent(e.device.address)
    ELSE RemovedEvent(e.device.address)

\* The event-forwarding task of a device: event_listener.recv() gives an event and
\* event_sender.send(event) completes.
ForwardDeviceEvent(device) ==
  /\ device \in forwarding
  /\ PendingEvents(device) # {}
  /\ LoopAlive
  /\ Len(device_event_receiver) < ChannelCap
  /\ event_stream' = event_stream \ {NextEvent(device)}
  /\ device_event_receiver' =
       Append(device_event_receiver, DeviceEventOf(NextEvent(device)))
  /\ UNCHANGED << device_index_generator, device_map, device_index_map, device_allow_list,
                  device_deny_list, scanning_in_progress, comm_manager_scanning_statuses,
                  device_comm_receiver, server_sender, handled, loop_state, creating,
                  forwarding, notifications_made, disconnected, scanning_status,
                  manager_state, start_commands, creators_used, run_vars, not_loop_vars >>

\* event_sender.send(event).await.unwrap(), Err: the loop is gone and the forwarding
\* task panics; its listener is dropped with what it had not received.
ForwardDeviceEventPanics(device) ==
  /\ device \in forwarding
  /\ PendingEvents(device) # {}
  /\ ~LoopAlive
  /\ event_stream' = event_stream \ PendingEvents(device)
  /\ forwarding' = forwarding \ {device}
  /\ UNCHANGED << device_index_generator, device_map, device_index_map, device_allow_list,
                  device_deny_list, scanning_in_progress, comm_manager_scanning_statuses,
                  device_comm_receiver, device_event_receiver, server_sender, handled,
                  loop_state, creating, notifications_made, disconnected, scanning_status,
                  manager_state, start_commands, creators_used, run_vars, not_loop_vars >>

\* event_listener.recv() gives Err: the device is out of device_map and dropped, its
\* stream is closed and read to its end; the while let ends the task.
ForwardTaskEnds(device) ==
  /\ device \in forwarding
  /\ PendingEvents(device) = {}
  /\ \A i \in DOMAIN device_map : device_map[i] # device
  /\ forwarding' = forwarding \ {device}
  /\ UNCHANGED << device_index_generator, device_map, device_index_map, device_allow_list,
                  device_deny_list, scanning_in_progress, comm_manager_scanning_statuses,
                  device_comm_receiver, device_event_receiver, server_sender, handled,
                  loop_state, creating, event_stream, notifications_made, disconnected,
                  scanning_status, manager_state, start_commands, creators_used, run_vars,
                  not_loop_vars >>

(***************************************************************************)
(* The collaborators of the loop: communication managers and devices.      *)
(***************************************************************************)
\* What no collaborator of the loop writes: the fields of the loop, and the other part.
loop_fields ==
  << device_index_generator, device_map, device_index_map, device_allow_list,
     device_deny_list, scanning_in_progress, comm_manager_scanning_statuses,
     server_sender, handled, loop_state, run_vars, not_loop_vars >>

\* send on the comm channel completes: a sender is left and the channel has room
CommChannelHasRoom == ~comm_closed /\ Len(device_comm_receiver) < ChannelCap

\* A communication manager is added to the server: it announces its scanning status.
AddCommManager(m) ==
  /\ manager_state[m] = "absent"
  /\ CommChannelHasRoom
  /\ manager_state' = [manager_state EXCEPT ![m] = "idle"]
  /\ device_comm_receiver' = Append(device_comm_receiver, DeviceManagerAddedEvent(m))
  /\ UNCHANGED << loop_fields, device_event_receiver, creating, forwarding, event_stream,
                  notifications_made, disconnected, scanning_status, start_commands,
                  creators_used >>

\* start_scanning: self.is_scanning.store(true, Ordering::SeqCst), whatever the manager
\* is doing, and a StartScanning command for its state machine.
ManagerStartScanning(m) ==
  /\ manager_state[m] # "absent"
  /\ start_commands[m] < MaxStartCommands
  /\ start_commands' = [start_commands EXCEPT ![m] = @ + 1]
  /\ scanning_status' = [scanning_status EXCEPT ![m] = TRUE]
  /\ UNCHANGED << loop_fields, device_comm_receiver, device_event_receiver, creating,
                  forwarding, event_stream, notifications_made, disconnected, manager_state,
                  creators_used >>

\* The manager's state machine takes StartScanning while idle: it enters Scanning, sets
\* the status and emits ScanningStarted.
ManagerEmitScanningStarted(m) ==
  /\ manager_state[m] = "idle"
  /\ start_commands[m] > 0
  /\ CommChannelHasRoom
  /\ start_commands' = [start_commands EXCEPT ![m] = @ - 1]
  /\ manager_state' = [manager_state EXCEPT ![m] = "scanning"]
  /\ scanning_status' = [scanning_status EXCEPT ![m] = TRUE]
  /\ device_comm_receiver' = Append(device_comm_receiver, ScanningStartedEvent)
  /\ UNCHANGED << loop_fields, device_event_receiver, creating, forwarding, event_stream,
                  notifications_made, disconnected, creators_used >>

\* The manager's state machine takes StartScanning while scanning: nothing changes.
ManagerIgnoresStartScanning(m) ==
  /\ manager_state[m] = "scanning"
  /\ start_commands[m] > 0
  /\ start_commands' = [start_commands EXCEPT ![m] = @ - 1]
  /\ UNCHANGED << loop_fields, device_comm_receiver, device_event_receiver, creating,
                  forwarding, event_stream, notifications_made, disconnected,
                  scanning_status, manager_state, creators_used >>

\* The manager's scan ends: it clears its scanning status ...
ManagerStopScanning(m) ==
  /\ manager_state[m] = "scanning"
  /\ manager_state' = [manager_state EXCEPT ![m] = "finishing"]
  /\ scanning_status' = [scanning_status EXCEPT ![m] = FALSE]
  /\ UNCHANGED << loop_fields, device_comm_receiver, device_event_receiver, creating,
                  forwarding, event_stream, notifications_made, disconnected,
                  start_commands, creators_used >>

\* ... and then emits ScanningFinished.
ManagerEmitScanningFinished(m) ==
  /\ manager_state[m] = "finishing"
  /\ CommChannelHasRoom
  /\ manager_state' = [manager_state EXCEPT ![m] = "idle"]
  /\ device_comm_receiver' = Append(device_comm_receiver, ScanningFinishedEvent)
  /\ UNCHANGED << loop_fields, device_event_receiver, creating, forwarding, event_stream,
                  notifications_made, disconnected, scanning_status, start_commands,
                  creators_used >>

\* A communication manager reports a device it has seen; every report carries its own
\* creator.
CommManagerEmitsDeviceFound(address) ==
  /\ CommChannelHasRoom
  /\ creators_used < MaxDevices
  /\ creators_used' = creators_used + 1
  /\ device_comm_receiver' =
       Append(device_comm_receiver, DeviceFoundEvent(address, creators_used + 1))
  /\ UNCHANGED << loop_fields, device_event_receiver, creating, forwarding, event_stream,
                  notifications_made, disconnected, scanning_status, manager_state,
                  start_commands >>

\* The transport of a registered device drops the connection: the device emits
\* Removed(address) on its event stream, once.
DeviceDisconnects(device) ==
  /\ device \in forwarding \ disconnected
  /\ disconnected' = disconnected \cup {device}
  /\ event_stream' = event_stream \cup {StreamEvent(device, "Removed")}
  /\ UNCHANGED << loop_fields, device_comm_receiver, device_event_receiver, creating,
                  forwarding, notifications_made, scanning_status, manager_state,
                  start_commands, creators_used >>

\* A registered device that has not disconnected emits a Notification on its event
\* stream.
DeviceNotifies(device) ==
  /\ device \in forwarding \ disconnected
  /\ notifications_made < MaxNotifications
  /\ StreamEvent(device, "Notification") \notin event_stream
  /\ notifications_made' = notifications_made + 1
  /\ event_stream' = event_stream \cup {StreamEvent(device, "Notification")}
  /\ UNCHANGED << loop_fields, device_comm_receiver, device_event_receiver, creating,
                  forwarding, disconnected, scanning_status, manager_state, start_commands,
                  creators_used >>

AllDevices == { Device(id, address) : id \in Creators, address \in Addresses }

(***************************************************************************)
(* The other two branches of run: the ping timeout and the end of the      *)
(* loop.                                                                   *)
(***************************************************************************)
\* What the ping timer, the ping task, and the end of the loop leave alone.
registry_vars ==
  << device_index_generator, device_map, device_index_map, device_allow_list,
     device_deny_list, scanning_in_progress, comm_manager_scanning_statuses,
     device_event_receiver, creating, forwarding, event_stream, notifications_made,
     disconnected, scanning_status, manager_state, start_commands, creators_used >>

\* The ping timer expires: ping_timeout_waiter() completes for the next select!.
PingTimerExpires ==
  /\ pings_fired < MaxPings
  /\ ~ping_pending
  /\ ping_pending' = TRUE
  /\ pings_fired' = pings_fired + 1
  /\ UNCHANGED << registry_vars, device_comm_receiver, server_sender, handled, loop_state,
                  stop_futures, stop_done, comm_closed, not_loop_vars >>

\* A ping timeout that stops no device.
PingStopTargets_none == {}

\* self.device_map.iter().for_each(|dev| fut_vec.push(dev.value().parse_message(StopDeviceCmd)))
PingStopTargets == { StopFuture(pings_fired, device_map[i]) : i \in DOMAIN device_map }

\* handle_ping_timeout: one StopDeviceCmd future per device in device_map, handed to a
\* spawned task.
HandlePingTimeout ==
  /\ loop_state = "running"
  /\ ping_pending
  /\ ping_pending' = FALSE
  /\ handled' = PingTimeoutEvent
  /\ server_sender' = << >>
  /\ stop_futures' = stop_futures \cup PingStopTargets
  /\ UNCHANGED << registry_vars, device_comm_receiver, loop_state, pings_fired, stop_done,
                  comm_closed, not_loop_vars >>

\* while let Some(val) = fut_vec.next().await { if let Err(e) = val { error!(...) } }
RemainingStops(fut, result) == stop_futures \ {fut}

\* The spawned task: one of the StopDeviceCmd futures completes, with Ok or with Err.
StopDeviceCompletes(fut, result) ==
  /\ fut \in stop_futures
  /\ stop_futures' = RemainingStops(fut, result)
  /\ stop_done' = [fut |-> fut, result |-> result]
  /\ UNCHANGED << registry_vars, device_comm_receiver, server_sender, handled, loop_state,
                  ping_pending, pings_fired, comm_closed, not_loop_vars >>

\* The server drops its communication managers: no sender of the comm channel is left.
DropCommSenders ==
  /\ ~comm_closed
  /\ comm_closed' = TRUE
  /\ UNCHANGED << registry_vars, device_comm_receiver, server_sender, handled, loop_state,
                  ping_pending, pings_fired, stop_futures, stop_done, not_loop_vars >>

\* device_comm_receiver.recv() returns None (closed and drained): break.
RunExits ==
  /\ loop_state = "running"
  /\ comm_closed
  /\ device_comm_receiver = << >>
  /\ loop_state' = "exited"
  /\ UNCHANGED << registry_vars, device_comm_receiver, server_sender, handled,
                  run_vars, not_loop_vars >>

AllStopFutures == { StopFuture(n, d) : n \in 1..MaxPings, d \in AllDevices }

\* The ping timeout branch and the end of the loop, with their collaborators and with
\* what the end of the loop does to the forwarding tasks.
RunNext ==
  \/ \E device \in AllDevices : ForwardDeviceEventPanics(device)
  \/ PingTimerExpires
  \/ HandlePingTimeout
  \/ \E fut \in AllStopFutures, result \in {"ok", "err"} : StopDeviceCompletes(fut, result)
  \/ DropCommSenders
  \/ RunExits

\* The part of the loop that registers and removes devices, with its collaborators.
DeviceNext ==
  \/ HandleDeviceFound
  \/ HandleConnected
  \/ HandleConnectedResumes
  \/ HandleRemoved
  \/ HandleNotification
  \/ \E device \in AllDevices : CreateDeviceConnected(device)
  \/ \E device \in AllDevices : CreateDeviceDropped(device)
  \/ \E device \in AllDevices : ForwardDeviceEvent(device)
  \/ \E device \in AllDevices : ForwardTaskEnds(device)
  \/ \E device \in AllDevices : DeviceDisconnects(device)
  \/ \E device \in AllDevices : DeviceNotifies(device)
  \/ \E address \in Addresses : CommManagerEmitsDeviceFound(address)

\* The part of the loop that aggregates the scan lifecycle, with its collaborators.
ScanningNext ==
  \/ HandleScanningStarted
  \/ HandleScanningFinished
  \/ HandleDeviceManagerAdded
  \/ \E m \in Managers : AddCommManager(m)
  \/ \E m \in Managers : ManagerStartScanning(m)
  \/ \E m \in Managers : ManagerEmitScanningStarted(m)
  \/ \E m \in Managers : ManagerIgnoresStartScanning(m)
  \/ \E m \in Managers : ManagerStopScanning(m)
  \/ \E m \in Managers : ManagerEmitScanningFinished(m)

(***************************************************************************)
(* The Lovehoney Desire protocol: one device, its GenericCommandManager    *)
(* behind a Mutex, and the handle_vibrate_cmd calls that run against it.   *)
(***************************************************************************)
\* The device has two motors ("Set both motors with one command").
FeatureCount == 2
\* The largest value a motor accepts (the step count of the device configuration).
StepCount == 2
\* Speeds of a command are the reals 0/SpeedDen, 1/SpeedDen, ..., SpeedDen/SpeedDen.
SpeedDen == 3
\* The first byte of every write.
Opcode == 243

Actuators == 0..(FeatureCount - 1)
\* The handler calls that can be in flight together.
Tasks == {1, 2}

\* Option<u32>
None == << >>
Some(q) == << q >>
Unwrap(opt) == opt[1]

\* VibrateCmd: the speeds of its subcommands by actuator index. The commands are the
\* ones that address a non-empty set of actuators, and one that addresses an
\* actuator the device does not have.
VibrateCmds ==
  UNION { [S -> 0..SpeedDen] : S \in (SUBSET Actuators) \ { {} } }
    \cup { [i \in {FeatureCount} |-> SpeedDen] }

\* GenericCommandManager::get_stop_commands: one VibrateCmd with every speed zero.
StopCommand == [i \in Actuators |-> 0]

\* round(speed * step_count), halves rounded up, for speed = numerator / SpeedDen.
Quantize(numerator) == (2 * numerator * StepCount + SpeedDen) \div (2 * SpeedDen)

\* GenericCommandManager::update_vibration(msg, false), its return value:
\* Err for an actuator index out of range; Ok(None) when no actuator changes;
\* else Ok(Some(vals)) with Some(q) for a changed actuator and None for the others.
UpdateVibrationVals(msg) ==
  [i \in Actuators |->
     IF i \in DOMAIN msg /\ Some(Quantize(msg[i])) # gcm_current[i]
       THEN Some(Quantize(msg[i]))
       ELSE None]

UpdateVibration(msg) ==
  IF \E i \in DOMAIN msg : i >= FeatureCount
    THEN [tag |-> "Err", vals |-> [i \in Actuators |-> None]]
    ELSE IF \A i \in Actuators : UpdateVibrationVals(msg)[i] = None
      THEN [tag |-> "None", vals |-> [i \in Actuators |-> None]]
      ELSE [tag |-> "Some", vals |-> UpdateVibrationVals(msg)]

\* ... and the cache it leaves: the changed actuators hold their new value.
UpdateVibrationCache(msg) ==
  IF \E i \in DOMAIN msg : i >= FeatureCount
    THEN gcm_current
    ELSE [i \in Actuators |->
            IF UpdateVibrationVals(msg)[i] # None
              THEN UpdateVibrationVals(msg)[i]
              ELSE gcm_current[i]]

\* Before the first call of a task
NoResult == [tag |-> "NoResult", vals |-> [i \in Actuators |-> None]]
NoCall == [kind |-> "none", msg |-> << >>]

\* speed as u8
AsU8(speed) == speed % 256

\* A consistently 0-based motor address.
MotorAddress_zero_based(i) == i

\* The address byte of the per-motor write for actuator i: i counts from 1.
MotorAddress(i) == i + 1

\* A check that never finds the entries equal.
AllSame_never(vals) == FALSE

\* A check that looks at the first entry only.
AllSame_first_only(vals) == vals[0] # None

\* cmds[0].is_some() && cmds.windows(2).all(|w| w[0] == w[1])
AllSame(vals) ==
  /\ vals[0] # None
  /\ \A w \in 0..(FeatureCount - 2) : vals[w] = vals[w + 1]

\* vec![0xF3, 0, cmds[0].unwrap() as u8]
CombinedWrite(vals) == << Opcode, 0, AsU8(Unwrap(vals[0])) >>

\* The else branch: one write future per Some entry, in the order of the entries.
MotorWrites(vals) ==
  LET all == [k \in 1..FeatureCount |-> << k - 1, vals[k - 1] >>]
      present == SelectSeq(all, LAMBDA e : e[2] # None)
  IN  [k \in 1..Len(present) |->
         << Opcode, MotorAddress(present[k][1]), AsU8(Unwrap(present[k][2])) >>]

\* A handler that writes the cached values even when nothing changed.
HandlerWrites_unconditional(result) ==
  IF result.tag = "Some"
    THEN IF AllSame(result.vals)
           THEN << CombinedWrite(result.vals) >>
           ELSE MotorWrites(result.vals)
    ELSE << << Opcode, 0, 0 >> >>

\* The writes handle_vibrate_cmd awaits, in order, for a result of update_vibration.
HandlerWrites(result) ==
  IF result.tag = "Some"
    THEN IF AllSame(result.vals)
           THEN << CombinedWrite(result.vals) >>
           ELSE MotorWrites(result.vals)
    ELSE << >>

DesireInit ==
  /\ gcm_current = [i \in Actuators |-> None]
  /\ gcm_lock = 0
  /\ pc = [t \in Tasks |-> "idle"]
  /\ call = [t \in Tasks |-> NoCall]
  /\ cmds = [t \in Tasks |-> NoResult]
  /\ fut_vec = [t \in Tasks |-> << >>]
  /\ written = [t \in Tasks |-> << >>]
  /\ ret = [t \in Tasks |-> "pending"]
  /\ update_order = << >>

\* A task starts a call of the handler for a command.
StartCall(t, kind, msg) ==
  /\ pc[t] = "idle"
  /\ pc' = [pc EXCEPT ![t] = "lock"]
  /\ call' = [call EXCEPT ![t] = [kind |-> kind, msg |-> msg]]
  /\ UNCHANGED << gcm_current, gcm_lock, cmds, fut_vec, written, ret, update_order, not_desire_vars >>

\* handle_vibrate_cmd(device, message)
HandleVibrateCmd(t, msg) == StartCall(t, "vibrate", msg)

\* StopDeviceCmd: the stop command of the protocol goes through handle_vibrate_cmd.
HandleStopDeviceCmd(t) == StartCall(t, "stop", StopCommand)

\* A lock that is handed out while it is held.
LockIsFree_always == TRUE

\* tokio::sync::Mutex: lock() completes when no task holds the guard
LockIsFree == gcm_lock = 0

\* manager.lock().await
AcquireLock(t) ==
  /\ pc[t] = "lock"
  /\ LockIsFree
  /\ gcm_lock' = t
  /\ pc' = [pc EXCEPT ![t] = "locked"]
  /\ UNCHANGED << gcm_current, call, cmds, fut_vec, written, ret, update_order, not_desire_vars >>

Without(seq, t) == SelectSeq(seq, LAMBDA x : x # t)

\* A guard that lives as long as the handler's future: the lock stays with the task.
LockAfterUpdate_held(t) == t

\* The MutexGuard is a temporary of the let statement: it is dropped at its end.
LockAfterUpdate(t) == 0

\* .update_vibration(&message, false)? and the end of the statement, where the guard
\* is dropped; then the branch on the result, up to the first await of a write.
UpdateAndRelease(t) ==
  /\ pc[t] = "locked"
  /\ LET result == UpdateVibration(call[t].msg)
         writes == HandlerWrites(result)
     IN
       /\ gcm_current' = UpdateVibrationCache(call[t].msg)
       /\ gcm_lock' = LockAfterUpdate(t)
       /\ cmds' = [cmds EXCEPT ![t] = result]
       /\ fut_vec' = [fut_vec EXCEPT ![t] = writes]
       /\ IF result.tag = "Err"
            THEN /\ ret' = [ret EXCEPT ![t] = "err"]
                 /\ pc' = [pc EXCEPT ![t] = "done"]
                 /\ UNCHANGED update_order
            ELSE IF writes = << >>
              THEN /\ ret' = [ret EXCEPT ![t] = "ok"]
                   /\ pc' = [pc EXCEPT ![t] = "done"]
                   /\ UNCHANGED update_order
              ELSE /\ pc' = [pc EXCEPT ![t] = "write"]
                   /\ update_order' = Append(update_order, t)
                   /\ UNCHANGED ret
  /\ UNCHANGED << call, written, not_desire_vars >>

\* fut.await: the write at the head of the pending writes reaches the transport.
WriteBegins(t) ==
  /\ pc[t] = "write"
  /\ written' = [written EXCEPT ![t] = Append(written[t], Head(fut_vec[t]))]
  /\ fut_vec' = [fut_vec EXCEPT ![t] = Tail(fut_vec[t])]
  /\ pc' = [pc EXCEPT ![t] = "writing"]
  /\ UNCHANGED << gcm_current, gcm_lock, call, cmds, ret, update_order, not_desire_vars >>

\* A handler that returns Ok as soon as one write has completed.
AllWritesAwaited_first_only(futs) == TRUE

\* for fut in fut_vec { fut.await?; }: the loop ends when no future is left.
AllWritesAwaited(futs) == futs = << >>

\* The write completes with Ok: the next write is awaited, or the handler returns Ok.
WriteCompletes(t) ==
  /\ pc[t] = "writing"
  /\ IF AllWritesAwaited(fut_vec[t])
       THEN /\ pc' = [pc EXCEPT ![t] = "done"]
            /\ ret' = [ret EXCEPT ![t] = "ok"]
            /\ update_order' = Without(update_order, t)
       ELSE /\ pc' = [pc EXCEPT ![t] = "write"]
            /\ UNCHANGED << ret, update_order >>
  /\ UNCHANGED << gcm_current, gcm_lock, call, cmds, fut_vec, written, not_desire_vars >>

\* The write completes with Err: fut.await? returns it and drops the writes left.
WriteFails(t) ==
  /\ pc[t] = "writing"
  /\ pc' = [pc EXCEPT ![t] = "done"]
  /\ ret' = [ret EXCEPT ![t] = "err"]
  /\ fut_vec' = [fut_vec EXCEPT ![t] = << >>]
  /\ update_order' = Without(update_order, t)
  /\ UNCHANGED << gcm_current, gcm_lock, call, cmds, written, not_desire_vars >>

\* The caller takes the result of the finished call; the task is free for the next one.
CallReturns(t) ==
  /\ pc[t] = "done"
  /\ pc' = [pc EXCEPT ![t] = "idle"]
  /\ call' = [call EXCEPT ![t] = NoCall]
  /\ cmds' = [cmds EXCEPT ![t] = NoResult]
  /\ written' = [written EXCEPT ![t] = << >>]
  /\ ret' = [ret EXCEPT ![t] = "pending"]
  /\ UNCHANGED << gcm_current, gcm_lock, fut_vec, update_order, not_desire_vars >>

\* The calls of one task.
DesireTask(t) ==
  \/ \E msg \in VibrateCmds : HandleVibrateCmd(t, msg)
  \/ HandleStopDeviceCmd(t)
  \/ AcquireLock(t)
  \/ UpdateAndRelease(t)
  \/ WriteBegins(t)
  \/ WriteCompletes(t)
  \/ WriteFails(t)
  \/ CallReturns(t)

(***************************************************************************)
(* The Lovense HID dongle communication manager: the manager, its finder   *)
(* task, its state machine, and the reader and writer threads.             *)
(***************************************************************************)
\* Number of start_scanning and stop_scanning calls.
MaxScanCalls == 3
\* The longest outbound message, in bytes, and the number of outbound messages.
MaxMsgLen == 130
MaxWrites == 1
\* The number of non-empty inbound reads.
MaxReads == 3

\* data_bytes.chunks(63)
ChunkLen == 63
\* [0u8; 65]
ReportLen == 65
\* '\n'
Newline == 10
\* "\r\n"
CRLF == << 13, 10 >>

Min(a, b) == IF a <= b THEN a ELSE b

\* No future of start_scanning or stop_scanning exists.
NoScanFutures == [StartScanning |-> 0, StopScanning |-> 0, panicked |-> 0]

HidInit ==
  /\ dongle_present \in BOOLEAN
  /\ find_dongle = "spawned"
  /\ is_scanning = FALSE
  /\ machine_receiver = << >>
  /\ machine = "WaitingForDongle"
  /\ hid_events = << >>
  /\ scan_calls = 0
  /\ scan_futures = NoScanFutures
  /\ token_cancelled = FALSE
  /\ writer_receiver = << >>
  /\ writer_pc = "not_started"
  /\ writer_msg = << >>
  /\ writer_chunks = << >>
  /\ hid_written = << >>
  /\ writes_made = 0
  /\ reader_pc = "not_started"
  /\ data = << >>
  /\ hid_consumed = << >>
  /\ reads_made = 0
  /\ stream = << >>
  /\ reader_channel = << >>
  /\ forwarded = << >>
  /\ consumer = "consuming"

\* ---- the finder task
\* find_dongle up to its first await: both handles open and the two threads are spawned
\* with child tokens; the threads run from here on.
FindDongleOpens ==
  /\ find_dongle = "spawned"
  /\ dongle_present
  /\ find_dongle' = "sending"
  /\ reader_pc' = "starting"
  /\ writer_pc' = "waiting"
  /\ UNCHANGED << dongle_present, is_scanning, machine_receiver, machine, hid_events,
                  scan_calls, scan_futures, token_cancelled, writer_receiver, writer_msg,
                  writer_chunks, hid_written, writes_made, data, hid_consumed, reads_made,
                  stream, reader_channel, forwarded, consumer, not_hid_vars >>

\* find_dongle, the rest: the join handles are stored and DongleFound is sent to the
\* state machine once its channel has room. (The unwrap of the send cannot fail: the
\* state machine keeps its receiver while this sender exists.)
FindDongleFound ==
  /\ find_dongle = "sending"
  /\ Len(machine_receiver) < ChannelCap
  /\ find_dongle' = "found"
  /\ machine_receiver' = Append(machine_receiver, "DongleFound")
  /\ UNCHANGED << dongle_present, is_scanning, machine, hid_events, scan_calls,
                  scan_futures, token_cancelled, writer_vars, reader_vars, not_hid_vars >>

\* find_dongle, Err: api.open fails, the ? returns the error, and the task that awaits
\* the future discards it (let _ = dongle_fut.await).
FindDongleFails ==
  /\ find_dongle = "spawned"
  /\ ~dongle_present
  /\ find_dongle' = "failed"
  /\ UNCHANGED << dongle_present, is_scanning, machine_receiver, machine, hid_events,
                  scan_calls, scan_futures, token_cancelled, writer_vars, reader_vars,
                  not_hid_vars >>

\* ---- the manager
\* self.is_scanning.store(true, Ordering::SeqCst)
IsScanningAfterStart == TRUE

\* start_scanning: the status is set in the call; the send of StartScanning is in the
\* future the call returns.
StartScanning ==
  /\ ~token_cancelled
  /\ scan_calls < MaxScanCalls
  /\ scan_calls' = scan_calls + 1
  /\ is_scanning' = IsScanningAfterStart
  /\ scan_futures' = [scan_futures EXCEPT !.StartScanning = @ + 1]
  /\ UNCHANGED << dongle_present, find_dongle, machine_receiver, machine, hid_events,
                  token_cancelled, writer_vars, reader_vars, not_hid_vars >>

\* stop_scanning: the call only builds the future that sends StopScanning.
StopScanning ==
  /\ ~token_cancelled
  /\ scan_calls < MaxScanCalls
  /\ scan_calls' = scan_calls + 1
  /\ scan_futures' = [scan_futures EXCEPT !.StopScanning = @ + 1]
  /\ UNCHANGED << dongle_present, find_dongle, is_scanning, machine_receiver, machine,
                  hid_events, token_cancelled, writer_vars, reader_vars, not_hid_vars >>

\* The commands whose futures are not yet complete
PendingScanCommands == { cmd \in {"StartScanning", "StopScanning"} : scan_futures[cmd] > 0 }

\* A future of start_scanning or stop_scanning is polled: sender.send(command) completes
\* once the channel of the state machine has room.
ScanFutureSends(cmd) ==
  /\ cmd \in PendingScanCommands
  /\ machine # "Terminated"
  /\ Len(machine_receiver) < ChannelCap
  /\ scan_futures' = [scan_futures EXCEPT ![cmd] = @ - 1]
  /\ machine_receiver' = Append(machine_receiver, cmd)
  /\ UNCHANGED << dongle_present, find_dongle, is_scanning, machine, hid_events,
                  scan_calls, token_cancelled, writer_vars, reader_vars, not_hid_vars >>

\* sender.send(command).await.unwrap(), Err: the state machine has ended and dropped its
\* receiver; the task that polls the future panics.
ScanFuturePanics(cmd) ==
  /\ cmd \in PendingScanCommands
  /\ machine = "Terminated"
  /\ scan_futures' = [scan_futures EXCEPT ![cmd] = @ - 1, !.panicked = @ + 1]
  /\ UNCHANGED << dongle_present, find_dongle, is_scanning, machine_receiver, machine,
                  hid_events, scan_calls, token_cancelled, writer_vars, reader_vars,
                  not_hid_vars >>

\* The caller drops a future without polling it to its end: nothing is sent.
ScanFutureDropped(cmd) ==
  /\ cmd \in PendingScanCommands
  /\ scan_futures' = [scan_futures EXCEPT ![cmd] = @ - 1]
  /\ UNCHANGED << dongle_present, find_dongle, is_scanning, machine_receiver, machine,
                  hid_events, scan_calls, token_cancelled, writer_vars, reader_vars,
                  not_hid_vars >>

\* Drop: self.thread_cancellation_token.cancel()
DropManager ==
  /\ ~token_cancelled
  /\ token_cancelled' = TRUE
  /\ UNCHANGED << dongle_vars, writer_vars, reader_vars, not_hid_vars >>

\* ---- the state machine (create_lovense_dongle_machine), by its transition table
MachineNextState(state, input) ==
  CASE state = "WaitingForDongle" /\ input = "DongleFound" -> "Idle"
    [] state = "Idle" /\ input = "StartScanning" -> "Scanning"
    [] state = "Scanning" /\ input = "StopScanning" -> "Idle"
    [] OTHER -> state

MachineEmits(state, input) ==
  CASE state = "Idle" /\ input = "StartScanning" -> << "ScanningStarted" >>
    [] state = "Scanning" /\ input = "StopScanning" -> << "ScanningFinished" >>
    [] OTHER -> << >>

MachineStatus(state, input) ==
  CASE state = "Idle" /\ input = "StartScanning" -> TRUE
    [] state = "Scanning" /\ input = "StopScanning" -> FALSE
    [] OTHER -> is_scanning

\* machine.transition() with the next command of the manager
MachineTransition ==
  /\ machine # "Terminated"
  /\ consumer # "stalled"
  /\ machine_receiver # << >>
  /\ LET input == Head(machine_receiver) IN
       /\ machine' = MachineNextState(machine, input)
       /\ hid_events' = hid_events \o MachineEmits(machine, input)
       /\ is_scanning' = MachineStatus(machine, input)
  /\ machine_receiver' = Tail(machine_receiver)
  /\ UNCHANGED << dongle_present, find_dongle, scan_calls, scan_futures, token_cancelled,
                  writer_vars, reader_vars, not_hid_vars >>

\* The state machine takes an incoming message from reader_receiver.
MachineTakesIncoming ==
  /\ machine # "Terminated"
  /\ consumer = "consuming"
  /\ reader_channel # << >>
  /\ reader_channel' = Tail(reader_channel)
  /\ UNCHANGED << dongle_vars, token_cancelled, writer_vars, reader_pc, data, hid_consumed,
                  reads_made, stream, forwarded, consumer, not_hid_vars >>

\* The state machine stops polling its channels (it is suspended in a send of its own).
MachineStalls ==
  /\ machine # "Terminated"
  /\ consumer = "consuming"
  /\ consumer' = "stalled"
  /\ UNCHANGED << dongle_vars, token_cancelled, writer_vars, reader_pc, data, hid_consumed,
                  reads_made, stream, reader_channel, forwarded, not_hid_vars >>

\* Every machine_sender is gone: the manager is dropped, the finder task has ended and
\* no future of start_scanning or stop_scanning is left.
SendersGone ==
  /\ token_cancelled
  /\ find_dongle \in {"found", "failed"}
  /\ PendingScanCommands = {}
  /\ machine_receiver = << >>

\* The reader thread has ended and dropped reader_sender, and the state machine, which
\* holds reader_receiver since DongleFound, has read the channel to its end.
ReaderGone ==
  /\ machine # "WaitingForDongle"
  /\ reader_pc \in {"exited", "panicked"}
  /\ reader_channel = << >>

\* Any state, channel closed: the state machine ends (transition() gives None) and drops
\* machine_receiver, reader_receiver and writer_sender.
MachineTerminates ==
  /\ machine # "Terminated"
  /\ consumer = "consuming"
  /\ SendersGone \/ ReaderGone
  /\ machine' = "Terminated"
  /\ consumer' = "dropped"
  /\ machine_receiver' = << >>
  /\ UNCHANGED << dongle_present, find_dongle, is_scanning, hid_events, scan_calls,
                  scan_futures, token_cancelled, writer_vars, reader_pc, data, hid_consumed,
                  reads_made, stream, reader_channel, forwarded, not_hid_vars >>

\* ---- the writer thread
\* The bytes of an outbound message: a text of len bytes without a zero byte.
Seeds == {1, 2}
MessageBytes(len, seed) == [i \in 1..len |-> ((i * seed) % 255) + 1]

\* data_bytes.chunks(63)
NumChunks(n) == (n + ChunkLen - 1) \div ChunkLen
Chunks(bytes) ==
  [k \in 1..NumChunks(Len(bytes)) |->
     SubSeq(bytes, (k - 1) * ChunkLen + 1, Min(k * ChunkLen, Len(bytes)))]

\* A report whose payload starts at byte 0.
Report_unpadded(chunk) ==
  [i \in 1..ReportLen |-> IF i <= Len(chunk) THEN chunk[i] ELSE 0]

\* let mut byte_array = [0u8; 65]; byte_array[1..chunk.len() + 1].copy_from_slice(chunk)
\* (byte k of the array is element k + 1 of the sequence)
Report(chunk) ==
  [i \in 1..ReportLen |-> IF i >= 2 /\ i <= Len(chunk) + 1 THEN chunk[i - 1] ELSE 0]

\* The state machine sends an outbound message to the writer.
MachineWrites(bytes) ==
  /\ find_dongle = "found"
  /\ machine # "Terminated"
  /\ writes_made < MaxWrites
  /\ Len(writer_receiver) < ChannelCap
  /\ writes_made' = writes_made + 1
  /\ writer_receiver' = Append(writer_receiver, bytes)
  /\ UNCHANGED << dongle_vars, token_cancelled, writer_pc, writer_msg, writer_chunks,
                  hid_written, reader_vars, not_hid_vars >>

\* receiver.recv() gives a message: port_write appends CRLF and chunks the bytes.
WriterTakes ==
  /\ writer_pc = "waiting"
  /\ writer_receiver # << >>
  /\ writer_receiver' = Tail(writer_receiver)
  /\ writer_msg' = Head(writer_receiver)
  /\ writer_chunks' = Chunks(Head(writer_receiver) \o CRLF)
  /\ hid_written' = << >>
  /\ writer_pc' = "writing"
  /\ UNCHANGED << dongle_vars, token_cancelled, writes_made, reader_vars, not_hid_vars >>

\* dongle.write(&byte_array) of the next chunk, Ok
WriterWrites ==
  /\ writer_pc = "writing"
  /\ hid_written' = Append(hid_written, Report(Head(writer_chunks)))
  /\ writer_chunks' = Tail(writer_chunks)
  /\ writer_pc' = IF Tail(writer_chunks) = << >> THEN "waiting" ELSE "writing"
  /\ UNCHANGED << dongle_vars, token_cancelled, writer_receiver, writer_msg, writes_made,
                  reader_vars, not_hid_vars >>

\* dongle.write(&byte_array).unwrap() of the next chunk, Err
WriterWriteFails ==
  /\ writer_pc = "writing"
  /\ writer_pc' = "panicked"
  /\ UNCHANGED << dongle_vars, token_cancelled, writer_receiver, writer_msg, writer_chunks,
                  hid_written, writes_made, reader_vars, not_hid_vars >>

\* The select! gives None: the token is cancelled, or the channel is closed and drained.
WriterExits ==
  /\ writer_pc = "waiting"
  /\ \/ token_cancelled
     \/ machine = "Terminated" /\ writer_receiver = << >>
  /\ writer_pc' = "exited"
  /\ UNCHANGED << dongle_vars, token_cancelled, writer_receiver, writer_msg, writer_chunks,
                  hid_written, writes_made, reader_vars, not_hid_vars >>

\* ---- the reader thread
\* Two messages of the dongle as UTF-8 JSON text: {"func":"search"} and {"func":"second"}
MsgSearch ==
  << 123, 34, 102, 117, 110, 99, 34, 58, 34, 115, 101, 97, 114, 99, 104, 34, 125 >>
MsgSecond ==
  << 123, 34, 102, 117, 110, 99, 34, 58, 34, 115, 101, 99, 111, 110, 100, 34, 125 >>

\* The JSON texts the model reads, each with the LovenseDongleIncomingMessage it is
\* deserialized to.
KnownMessages ==
  { [text |-> MsgSearch, msg |-> [func |-> "search"]],
    [text |-> MsgSecond, msg |-> [func |-> "second"]] }

\* What dongle.read_timeout puts in buf, the text and the string terminator: a whole
\* record, a record in two reads, two records in one read, two JSON values in one
\* record, a record that is not JSON, empty and blank records, a two-byte character,
\* and bytes that are not UTF-8 (an overlong encoding, a byte that starts no character).
HidTexts ==
  { MsgSearch \o << Newline >>,
    SubSeq(MsgSearch, 1, 8),
    SubSeq(MsgSearch, 9, 17) \o << Newline >>,
    MsgSearch \o << Newline >> \o MsgSecond \o << Newline >>,
    MsgSearch \o MsgSecond \o << Newline >>,
    << 97, Newline >>,
    << Newline >>,
    << 32, Newline >>,
    << 195, 169, Newline >>,
    << 224, 128, 128 >>,
    << 255 >> }

HidReads == { Append(text, 0) : text \in HidTexts }

\* std::str::from_utf8(bytes).is_ok(): one-byte characters, and lead bytes followed by
\* the continuation bytes they announce; the byte after the lead is restricted so that
\* no encoding is overlong (E0, F0), none is a surrogate (ED) and none is above
\* U+10FFFF (F4).
IsContinuation(byte) == byte >= 128 /\ byte <= 191

\* Number of bytes of the character a lead byte starts, 0 for a byte that starts none.
Utf8Width(lead) ==
  IF lead < 128 THEN 1
  ELSE IF lead >= 194 /\ lead <= 223 THEN 2
  ELSE IF lead >= 224 /\ lead <= 239 THEN 3
  ELSE IF lead >= 240 /\ lead <= 244 THEN 4
  ELSE 0

\* The byte after the lead byte is in the range the lead allows.
IsSecondByte(lead, byte) ==
  IF lead = 224 THEN byte >= 160 /\ byte <= 191
  ELSE IF lead = 237 THEN byte >= 128 /\ byte <= 159
  ELSE IF lead = 240 THEN byte >= 144 /\ byte <= 191
  ELSE IF lead = 244 THEN byte >= 128 /\ byte <= 143
  ELSE IsContinuation(byte)

RECURSIVE IsUtf8(_)
IsUtf8(bytes) ==
  IF bytes = << >> THEN TRUE
  ELSE LET lead == Head(bytes)
           n == Utf8Width(lead)
       IN  /\ n > 0
           /\ Len(bytes) >= n
           /\ n >= 2 => IsSecondByte(lead, bytes[2])
           /\ \A i \in 3..n : IsContinuation(bytes[i])
           /\ IsUtf8(SubSeq(bytes, n + 1, Len(bytes)))

\* msg_vec[0] of data.split('\n'): the text before the first newline
FirstRecord(text) ==
  LET first == CHOOSE i \in 1..Len(text) :
                 text[i] = Newline /\ \A j \in 1..(i - 1) : text[j] # Newline
  IN  SubSeq(text, 1, first - 1)

ContainsNewline(text) == \E i \in 1..Len(text) : text[i] = Newline

\* JSON whitespace between the values of a stream
RECURSIVE SkipWhitespace(_)
SkipWhitespace(text) ==
  IF text # << >> /\ Head(text) \in {32, 9, 13, 10}
    THEN SkipWhitespace(Tail(text))
    ELSE text

StartsWith(text, prefix) ==
  Len(text) >= Len(prefix) /\ SubSeq(text, 1, Len(prefix)) = prefix

\* Deserializer::from_str(incoming).into_iter() with its Err items dropped (the Err arm
\* of the loop is empty): the JSON values at the front of the record, in order; the
\* stream ends at the end of the record or with the first text that is not a message.
RECURSIVE ParseStream(_)
ParseStream(record) ==
  LET text == SkipWhitespace(record)
      known == { m \in KnownMessages : StartsWith(text, m.text) }
  IN  IF text = << >> \/ known = {}
        THEN << >>
        ELSE LET m == CHOOSE m \in known : TRUE
             IN  << m.msg >> \o ParseStream(SubSeq(text, Len(m.text) + 1, Len(text)))

\* data = String::default()
DataAfterRecord(text) == << >>

\* dongle.set_blocking_mode(true), Ok: the thread reaches its loop with data empty.
ReaderStarts ==
  /\ reader_pc = "starting"
  /\ reader_pc' = "checking"
  /\ UNCHANGED << dongle_vars, token_cancelled, writer_vars, data, hid_consumed,
                  reads_made, stream, reader_channel, forwarded, consumer, not_hid_vars >>

\* dongle.set_blocking_mode(true).unwrap(), Err: the thread panics before its first
\* loop test, with nothing read.
ReaderStartPanics ==
  /\ reader_pc = "starting"
  /\ reader_pc' = "panicked"
  /\ UNCHANGED << dongle_vars, token_cancelled, writer_vars, data, hid_consumed,
                  reads_made, stream, reader_channel, forwarded, consumer, not_hid_vars >>

\* while !token.is_cancelled(), false: the thread enters dongle.read_timeout(&mut buf, 100).
ReaderBeginsRead ==
  /\ reader_pc = "checking"
  /\ ~token_cancelled
  /\ reader_pc' = "reading"
  /\ UNCHANGED << dongle_vars, token_cancelled, writer_vars, data, hid_consumed,
                  reads_made, stream, reader_channel, forwarded, consumer, not_hid_vars >>

\* read_timeout gives Ok(0): continue.
ReaderReadTimesOut ==
  /\ reader_pc = "reading"
  /\ reader_pc' = "checking"
  /\ UNCHANGED << dongle_vars, token_cancelled, writer_vars, data, hid_consumed,
                  reads_made, stream, reader_channel, forwarded, consumer, not_hid_vars >>

\* read_timeout gives Ok(len) with len > 0: from_utf8(..).unwrap() panics on bytes that
\* are not UTF-8; otherwise the bytes but the last are appended to data and, if data holds
\* a newline, the first record is parsed; data is reset once the messages of the record
\* are sent.
ReaderReads(buf) ==
  /\ reader_pc = "reading"
  /\ reads_made < MaxReads
  /\ reads_made' = reads_made + 1
  /\ LET text == SubSeq(buf, 1, Len(buf) - 1)
         appended == data \o text
     IN
       IF ~IsUtf8(text)
         THEN /\ reader_pc' = "panicked"
              /\ UNCHANGED << data, hid_consumed, stream >>
         ELSE /\ hid_consumed' = hid_consumed \o text
              /\ IF ContainsNewline(appended)
                   THEN /\ stream' = ParseStream(FirstRecord(appended))
                        /\ IF ParseStream(FirstRecord(appended)) = << >>
                             THEN /\ data' = DataAfterRecord(appended)
                                  /\ reader_pc' = "checking"
                             ELSE /\ data' = appended
                                  /\ reader_pc' = "sending"
                   ELSE /\ data' = appended
                        /\ reader_pc' = "checking"
                        /\ UNCHANGED stream
  /\ UNCHANGED << dongle_vars, token_cancelled, writer_vars, reader_channel, forwarded,
                  consumer, not_hid_vars >>

\* sender_clone.blocking_send(m), Ok: the channel has room; after the last message of
\* the record data is reset.
ReaderSends ==
  /\ reader_pc = "sending"
  /\ consumer # "dropped"
  /\ Len(reader_channel) < ChannelCap
  /\ reader_channel' = Append(reader_channel, Head(stream))
  /\ forwarded' = Append(forwarded, Head(stream))
  /\ stream' = Tail(stream)
  /\ IF Tail(stream) = << >>
       THEN /\ data' = DataAfterRecord(data)
            /\ reader_pc' = "checking"
       ELSE UNCHANGED << data, reader_pc >>
  /\ UNCHANGED << dongle_vars, token_cancelled, writer_vars, hid_consumed, reads_made,
                  consumer, not_hid_vars >>

\* sender_clone.blocking_send(m).unwrap(), Err: the receiver is gone.
ReaderSendPanics ==
  /\ reader_pc = "sending"
  /\ consumer = "dropped"
  /\ reader_pc' = "panicked"
  /\ UNCHANGED << dongle_vars, token_cancelled, writer_vars, data, hid_consumed,
                  reads_made, stream, reader_channel, forwarded, consumer, not_hid_vars >>

\* read_timeout gives Err(e): break.
ReaderReadFails ==
  /\ reader_pc = "reading"
  /\ reader_pc' = "exited"
  /\ UNCHANGED << dongle_vars, token_cancelled, writer_vars, data, hid_consumed,
                  reads_made, stream, reader_channel, forwarded, consumer, not_hid_vars >>

\* while !token.is_cancelled(), true: the loop ends.
ReaderExits ==
  /\ reader_pc = "checking"
  /\ token_cancelled
  /\ reader_pc' = "exited"
  /\ UNCHANGED << dongle_vars, token_cancelled, writer_vars, data, hid_consumed,
                  reads_made, stream, reader_channel, forwarded, consumer, not_hid_vars >>

\* ---- the parts of the manager, each with its collaborators
\* The manager, its finder task and state machine; the reader thread only starts and
\* fails.
HidManagerNext ==
  \/ FindDongleOpens
  \/ FindDongleFound
  \/ FindDongleFails
  \/ StartScanning
  \/ StopScanning
  \/ \E cmd \in {"StartScanning", "StopScanning"} : ScanFutureSends(cmd)
  \/ \E cmd \in {"StartScanning", "StopScanning"} : ScanFuturePanics(cmd)
  \/ \E cmd \in {"StartScanning", "StopScanning"} : ScanFutureDropped(cmd)
  \/ MachineTransition
  \/ ReaderStarts
  \/ ReaderStartPanics
  \/ ReaderBeginsRead
  \/ ReaderReadFails
  \/ MachineTerminates

HidWriterNext ==
  \/ FindDongleOpens
  \/ FindDongleFound
  \/ \E len \in 0..MaxMsgLen, seed \in Seeds : MachineWrites(MessageBytes(len, seed))
  \/ WriterTakes
  \/ WriterWrites
  \/ WriterWriteFails

HidReaderNext ==
  \/ FindDongleOpens
  \/ FindDongleFound
  \/ ReaderStarts
  \/ ReaderStartPanics
  \/ ReaderBeginsRead
  \/ ReaderReadTimesOut
  \/ \E buf \in HidReads : ReaderReads(buf)
  \/ ReaderSends
  \/ ReaderReadFails
  \/ MachineTakesIncoming

\* The steps of the two threads.
ReaderStep ==
  \/ ReaderStarts
  \/ ReaderStartPanics
  \/ ReaderBeginsRead
  \/ ReaderReadTimesOut
  \/ \E buf \in { Append(MsgSearch \o << Newline >>, 0) } : ReaderReads(buf)
  \/ ReaderSends
  \/ ReaderSendPanics
  \/ ReaderReadFails
  \/ ReaderExits

WriterStep ==
  \/ WriterTakes
  \/ WriterWrites
  \/ WriterWriteFails
  \/ WriterExits

HidThreadsNext ==
  \/ FindDongleOpens
  \/ FindDongleFound
  \/ DropManager
  \/ MachineTransition
  \/ MachineTakesIncoming
  \/ MachineStalls
  \/ MachineTerminates
  \/ \E len \in {0, ChunkLen} : MachineWrites(MessageBytes(len, 1))
  \/ ReaderStep
  \/ WriterStep

(***************************************************************************)
(* run_server of the remote server: the three branches of its select!, the *)
(* reply tasks it spawns, and the end of the loop.                         *)
(***************************************************************************)
\* Number of items the connector delivers.
MaxRequests == 2
\* Number of events the server emits.
MaxServerEvents == 2

\* Result<ButtplugClientMessage, ButtplugServerError>: a client message with its id, or
\* a receive error
ClientItem(id, kind) == [id |-> id, kind |-> kind]

\* What a reply task sends on the connector
Reply(id, type) == [id |-> id, type |-> type]

\* The n-th event of the server, as sent on the connector: events carry id 0
ServerEvent(n) == [id |-> 0, type |-> "Event", seq |-> n]

RemoteInit ==
  /\ connector_receiver = << >>
  /\ requests_made = 0
  /\ reply_tasks = EmptyMap
  /\ connector_sent = << >>
  /\ remote_loop = "running"
  /\ connector_open = TRUE
  /\ server_receiver = << >>
  /\ events_made = 0
  /\ server_closed = FALSE
  /\ controller = "idle"
  /\ disconnect_calls = 0
  /\ server_msg = << >>

\* The connector delivers a client message (kind "msg") or a receive error (kind "err").
ConnectorDelivers(kind) ==
  /\ connector_open
  /\ requests_made < MaxRequests
  /\ Len(connector_receiver) < ChannelCap
  /\ requests_made' = requests_made + 1
  /\ connector_receiver' = Append(connector_receiver, ClientItem(requests_made + 1, kind))
  /\ UNCHANGED << reply_tasks, connector_sent, remote_loop, connector_open, server_receiver,
                  events_made, server_closed, controller, disconnect_calls,
                  server_msg, not_remote_vars >>

\* The remote end goes away: the connector's stream ends and its send fails from now on.
ConnectorCloses ==
  /\ connector_open
  /\ connector_open' = FALSE
  /\ UNCHANGED << connector_receiver, requests_made, reply_tasks, connector_sent,
                  remote_loop, server_receiver, events_made, server_closed, controller,
                  disconnect_calls, server_msg, not_remote_vars >>

\* The server emits an event on its event stream.
ServerEmits ==
  /\ ~server_closed
  /\ events_made < MaxServerEvents
  /\ Len(server_receiver) < ChannelCap
  /\ events_made' = events_made + 1
  /\ server_receiver' = Append(server_receiver, ServerEvent(events_made + 1))
  /\ UNCHANGED << connector_receiver, requests_made, reply_tasks, connector_sent,
                  remote_loop, connector_open, server_closed, controller, disconnect_calls,
                  server_msg, not_remote_vars >>

\* The server's event stream ends.
ServerCloses ==
  /\ ~server_closed
  /\ server_closed' = TRUE
  /\ UNCHANGED << connector_receiver, requests_made, reply_tasks, connector_sent,
                  remote_loop, connector_open, server_receiver, events_made, controller,
                  disconnect_calls, server_msg, not_remote_vars >>

\* A command is sent on the controller channel (kind "command"), or its sender is
\* dropped (kind "closed").
ControllerActs(kind) ==
  /\ controller = "idle"
  /\ controller' = kind
  /\ UNCHANGED << connector_receiver, requests_made, reply_tasks, connector_sent,
                  remote_loop, connector_open, server_receiver, events_made, server_closed,
                  disconnect_calls, server_msg, not_remote_vars >>

\* connector_receiver.next() gives Some(msg): a task is spawned for it.
RunServerTakes ==
  /\ remote_loop = "running"
  /\ connector_receiver # << >>
  /\ connector_receiver' = Tail(connector_receiver)
  /\ reply_tasks' =
       MapInsert(reply_tasks, Head(connector_receiver).id,
                 [item |-> Head(connector_receiver), state |-> "running"])
  /\ UNCHANGED << requests_made, connector_sent, remote_loop, remote_env_vars,
                  disconnect_calls, server_msg, not_remote_vars >>

\* The body of the spawned task: msg.unwrap() panics on a receive error; otherwise the
\* result of server.parse_message(msg), Ok(ret_msg) or Err(err_msg), is sent back.
TaskOutcome(item, parsed) ==
  IF item.kind = "err"
    THEN [state |-> "panicked", sent |-> << >>]
    ELSE IF parsed = "ok"
      THEN [state |-> "done", sent |-> << Reply(item.id, "Message") >>]
      ELSE [state |-> "done", sent |-> << Reply(item.id, "Error") >>]

\* connector.send(msg): the message goes out when the remote end is there, else Err
ConnectorSend(sent, msgs) == IF connector_open THEN sent \o msgs ELSE sent

\* The spawned task of item id runs; parsed is what server.parse_message returns.
ReplyTaskRuns(id, parsed) ==
  /\ id \in DOMAIN reply_tasks
  /\ reply_tasks[id].state = "running"
  /\ LET outcome == TaskOutcome(reply_tasks[id].item, parsed) IN
       /\ reply_tasks' = [reply_tasks EXCEPT ![id].state = outcome.state]
       /\ connector_sent' = ConnectorSend(connector_sent, outcome.sent)
  /\ UNCHANGED << connector_receiver, requests_made, remote_loop, remote_env_vars,
                  disconnect_calls, server_msg, not_remote_vars >>

\* A loop that ends without disconnecting the server.
DisconnectsAtExit_none(calls) == calls

\* After the loop: server.disconnect().await, once.
DisconnectsAtExit(calls) == calls + 1

\* break, then server.disconnect(), then run_server returns.
LeaveLoop ==
  /\ remote_loop' = "exited"
  /\ disconnect_calls' = DisconnectsAtExit(disconnect_calls)

\* connector_receiver.next() gives None: break.
RunServerConnectorClosed ==
  /\ remote_loop = "running"
  /\ ~connector_open
  /\ connector_receiver = << >>
  /\ LeaveLoop
  /\ UNCHANGED << connector_receiver, requests_made, reply_tasks, connector_sent,
                  remote_env_vars, server_msg, not_remote_vars >>

\* controller_receiver.next() gives a command or None: break.
RunServerExits ==
  /\ remote_loop = "running"
  /\ controller # "idle"
  /\ LeaveLoop
  /\ UNCHANGED << connector_receiver, requests_made, reply_tasks, connector_sent,
                  remote_env_vars, server_msg, not_remote_vars >>

\* server_receiver.next() gives None: break.
RunServerServerClosed ==
  /\ remote_loop = "running"
  /\ server_closed
  /\ server_receiver = << >>
  /\ LeaveLoop
  /\ UNCHANGED << connector_receiver, requests_made, reply_tasks, connector_sent,
                  remote_env_vars, server_msg, not_remote_vars >>

\* server_receiver.next() gives Some(msg): the loop holds the event and awaits
\* connector.send(msg); until the send completes it polls none of its channels.
RunServerForwards ==
  /\ remote_loop = "running"
  /\ server_receiver # << >>
  /\ server_receiver' = Tail(server_receiver)
  /\ server_msg' = << Head(server_receiver) >>
  /\ remote_loop' = "forwarding"
  /\ UNCHANGED << connector_receiver, requests_made, reply_tasks, connector_sent,
                  connector_open, events_made, server_closed, controller,
                  disconnect_calls, not_remote_vars >>

\* connector.send(msg) completes: Ok and the loop goes on, or Err and break.
RunServerSendCompletes ==
  /\ remote_loop = "forwarding"
  /\ connector_sent' = ConnectorSend(connector_sent, server_msg)
  /\ server_msg' = << >>
  /\ IF connector_open
       THEN /\ remote_loop' = "running"
            /\ UNCHANGED disconnect_calls
       ELSE LeaveLoop
  /\ UNCHANGED << connector_receiver, requests_made, reply_tasks, connector_open,
                  server_receiver, events_made, server_closed, controller,
                  not_remote_vars >>

RemoteNext ==
  \/ \E kind \in {"msg", "err"} : ConnectorDelivers(kind)
  \/ ConnectorCloses
  \/ ServerEmits
  \/ ServerCloses
  \/ \E kind \in {"command", "closed"} : ControllerActs(kind)
  \/ RunServerTakes
  \/ \E id \in 1..MaxRequests, parsed \in {"ok", "err"} : ReplyTaskRuns(id, parsed)
  \/ RunServerConnectorClosed
  \/ RunServerExits
  \/ RunServerServerClosed
  \/ RunServerForwards
  \/ RunServerSendCompletes

(***************************************************************************)
(* Specifications.                                                         *)
(***************************************************************************)
Init == LoopInit /\ DesireInit /\ HidInit /\ RemoteInit

\* The communication managers report devices but run no scan, so that the state of
\* the scan lifecycle (which the device handlers neither read nor write) stays put.
DevicesInit == Init /\ dongle_present

SpecDevices == DevicesInit /\ [][DeviceNext]_vars

\* The communication managers scan but report no device; the allow and deny lists
\* (which the scan handlers do not read) are empty.
ScanningInit ==
  Init /\ device_allow_list = {} /\ device_deny_list = {} /\ dongle_present

SpecScanning == ScanningInit /\ [][ScanningNext]_vars

\* Device registration with the ping timeout and the end of the loop.
SpecRun == DevicesInit /\ [][DeviceNext \/ RunNext]_vars

\* The ping timeout against devices that connect and stay, with empty allow and deny
\* lists.
PingNext ==
  \/ HandleDeviceFound
  \/ HandleConnected
  \/ HandleConnectedResumes
  \/ \E device \in AllDevices : CreateDeviceConnected(device)
  \/ \E address \in Addresses : CommManagerEmitsDeviceFound(address)
  \/ PingTimerExpires
  \/ HandlePingTimeout
  \/ \E fut \in AllStopFutures, result \in {"ok", "err"} : StopDeviceCompletes(fut, result)

SpecPing == ScanningInit /\ [][PingNext]_vars

\* The whole loop.
Next == DeviceNext \/ ScanningNext \/ RunNext

Spec == DevicesInit /\ [][Next]_vars

\* The scan lifecycle with a comm channel that is served: run takes the next message of
\* device_comm_receiver whenever there is one.
ServeCommChannel ==
  \/ HandleScanningStarted
  \/ HandleScanningFinished
  \/ HandleDeviceManagerAdded

SpecScanningFair ==
  /\ ScanningInit
  /\ [][ScanningNext]_vars
  /\ WF_vars(ServeCommChannel)

\* One Lovehoney Desire device whose commands arrive one at a time.
DesireNext == DesireTask(1)

SpecDesire == ScanningInit /\ [][DesireNext]_vars

\* One Lovehoney Desire device with two calls of the handler in flight.
DesireConcurrentNext == \E t \in Tasks : DesireTask(t)

SpecDesireConcurrent == ScanningInit /\ [][DesireConcurrentNext]_vars

\* The HID dongle manager, with a dongle or without one: the finder task, the scanning
\* calls and the state machine.
HidManagerInit == Init /\ device_allow_list = {} /\ device_deny_list = {}

SpecHidManager == HidManagerInit /\ [][HidManagerNext]_vars

\* The writer thread of a manager that finds its dongle.
SpecHidWriter == ScanningInit /\ [][HidWriterNext]_vars

\* The reader thread of a manager that finds its dongle.
SpecHidReader == ScanningInit /\ [][HidReaderNext]_vars

\* Both threads and the drop of the manager. The threads are scheduled by the operating
\* system: a thread that can take a step eventually takes one.
SpecHidThreads ==
  /\ ScanningInit
  /\ [][HidThreadsNext]_vars
  /\ WF_vars(ReaderStep)
  /\ WF_vars(WriterStep)

\* run_server.
SpecRemote == ScanningInit /\ [][RemoteNext]_vars

\* run_server with a select! that takes every branch that stays ready and a connector
\* whose send completes, with Ok or with Err.
SpecRemoteFair ==
  /\ ScanningInit
  /\ [][RemoteNext]_vars
  /\ WF_vars(RunServerConnectorClosed)
  /\ WF_vars(RunServerExits)
  /\ WF_vars(RunServerServerClosed)
  /\ WF_vars(RunServerForwards)
  /\ WF_vars(RunServerSendCompletes)

(***************************************************************************)
(* Properties of the device manager event loop.                            *)
(***************************************************************************)
Range(seq) == { seq[i] : i \in 1..Len(seq) }

\* This step is a run of handle_device_communication.
CommHandled ==
  /\ device_comm_receiver # << >>
  /\ device_comm_receiver' = Tail(device_comm_receiver)

\* This step is a run of handle_device_event.
EventHandled ==
  /\ device_event_receiver # << >>
  /\ device_event_receiver' = Tail(device_event_receiver)

\* This step is the rest of the Connected arm, after old_device.disconnect().await.
ConnectedResumed == loop_state = "disconnecting" /\ loop_state' = "running"

\* This step broadcasts msg to the clients.
Broadcast(msg) ==
  (CommHandled \/ EventHandled \/ ConnectedResumed) /\ msg \in Range(server_sender')

\* C1: for every address, device_index_map[address] never changes once it is set, and
\* every DeviceAdded broadcast is made by the Connected handler and carries the index
\* the map holds for the address of the connecting device, which is the index the map
\* held before whenever the address had one (a reconnect gets the previous index back).
C1_IndexStableAcrossReconnect ==
  [][ /\ \A a \in DOMAIN device_index_map :
           a \in DOMAIN device_index_map' /\ device_index_map'[a] = device_index_map[a]
      /\ \A i \in 0..MaxDevices :
           Broadcast(DeviceAddedMsg(i)) =>
             /\ \/ EventHandled /\ Head(device_event_receiver).type = "Connected"
                \/ ConnectedResumed /\ handled.type = "Connected"
             /\ LET address == IF ConnectedResumed
                                 THEN handled.address
                                 ELSE Head(device_event_receiver).address
                IN
                  /\ address \in DOMAIN device_index_map'
                  /\ i = device_index_map'[address]
                  /\ address \in DOMAIN device_index_map => i = device_index_map[address]
    ]_vars

\* C1 witness: a device has disconnected, its Removed has been handled, and a second
\* device with the same address has just been registered under index 0 again although
\* the index counter has moved on.
C1_Witness ==
  /\ handled.type = "Connected"
  /\ server_sender = << DeviceAddedMsg(0) >>
  /\ device_index_generator = 2
  /\ 0 \in DOMAIN device_map
  /\ device_map[0].id = handled.id
  /\ \E old \in disconnected :
       /\ old.address = handled.address
       /\ old.id # handled.id
       /\ PendingEvents(old) = {}
  /\ device_event_receiver = << >>

\* C2: no two entries of device_map hold devices with the same address.
C2_OneEntryPerAddress ==
  \A i, j \in DOMAIN device_map :
    i # j => device_map[i].address # device_map[j].address

\* C2 witness: a device was registered while an older device of the same address was
\* still in the map: the older one was ejected, its Removed is still to come, and the
\* newer one holds the entry of the address.
C2_Witness ==
  /\ Cardinality(DOMAIN device_map) = 1
  /\ loop_state = "running"
  /\ \E old \in disconnected, i \in DOMAIN device_map :
       /\ StreamEvent(old, "Removed") \in event_stream
       /\ device_map[i].address = old.address
       /\ device_map[i].id # old.id
       /\ handled = ConnectedEvent(device_map[i])

\* Every communication manager is idle (or was never added) and the loop has handled
\* every event they sent.
AllTransportsIdle ==
  /\ \A m \in Managers : manager_state[m] \in {"absent", "idle"} /\ start_commands[m] = 0
  /\ device_comm_receiver = << >>

\* C3: ScanningFinished is broadcast exactly once per scan session: a broadcast of
\* ScanningFinished happens only while scanning_in_progress is true, is a single message and
\* ends the session (scanning_in_progress becomes false); a session ends in no other way;
\* and once every transport is idle and its events are handled, no session is left open.
C3_ScanningFinishedOncePerSession ==
  /\ [](AllTransportsIdle => ~scanning_in_progress)
  /\ [][ /\ Broadcast(ScanningFinishedMsg) =>
              /\ scanning_in_progress
              /\ ~scanning_in_progress'
              /\ server_sender' = << ScanningFinishedMsg >>
         /\ (scanning_in_progress /\ ~scanning_in_progress') => Broadcast(ScanningFinishedMsg)
       ]_vars

\* C3 witness: two transports are registered, the loop has just broadcast
\* ScanningFinished, and the ScanningFinished event of another transport is still
\* waiting in the channel.
C3_Witness ==
  /\ Len(comm_manager_scanning_statuses) = 2
  /\ handled.type = "ScanningFinished"
  /\ server_sender = << ScanningFinishedMsg >>
  /\ ~scanning_in_progress
  /\ device_comm_receiver # << >>
  /\ Head(device_comm_receiver).type = "ScanningFinished"

\* C4: handling DeviceFound for an address that a device in device_map already has
\* starts no device-creation task, broadcasts nothing, and leaves device_map and
\* device_index_map unchanged.
C4_DuplicateDeviceFoundDropped ==
  [][ ( /\ CommHandled
        /\ Head(device_comm_receiver).type = "DeviceFound"
        /\ \E i \in DOMAIN device_map :
             device_map[i].address = Head(device_comm_receiver).address )
      => /\ creating' = creating
         /\ server_sender' = << >>
         /\ device_map' = device_map
         /\ device_index_map' = device_index_map
    ]_vars

\* C4 witness: the last handler run took a DeviceFound whose address is permitted by the
\* lists and belongs to a device in device_map, and no creation task exists for it.
C4_Witness ==
  /\ handled.type = "DeviceFound"
  /\ handled.address \notin device_deny_list
  /\ device_allow_list = {}
  /\ \E i \in DOMAIN device_map :
       /\ device_map[i].address = handled.address
       /\ device_map[i].id < handled.creator
  /\ Device(handled.creator, handled.address) \notin creating
  /\ server_sender = << >>

Permitted(address) ==
  /\ address \notin device_deny_list
  /\ device_allow_list # {} => address \in device_allow_list

\* C5: a DeviceFound whose address is denied, or is not in a non-empty allow list, starts
\* no device-creation task, so every device being created, registered or in device_map
\* has an address that is not denied and, when the allow list is non-empty, is allowed;
\* with an empty allow list a DeviceFound for a non-denied address that is not already
\* connected does start a creation task.
C5_DenyAndAllowLists ==
  /\ [](\A d \in creating \cup forwarding \cup { device_map[i] : i \in DOMAIN device_map } :
          Permitted(d.address))
  /\ [][ (CommHandled /\ Head(device_comm_receiver).type = "DeviceFound") =>
           LET ev == Head(device_comm_receiver) IN
             /\ ~Permitted(ev.address) => creating' = creating
             /\ ( /\ device_allow_list = {}
                  /\ ev.address \notin device_deny_list
                  /\ ~ \E i \in DOMAIN device_map : device_map[i].address = ev.address )
                => Device(ev.creator, ev.address) \in creating'
       ]_vars

\* C5 witness: with an empty allow list a device with a non-denied address is in
\* device_map, and the DeviceFound just handled, for a denied address, started no task.
C5_Witness ==
  /\ device_allow_list = {}
  /\ device_deny_list # {}
  /\ DOMAIN device_map # {}
  /\ handled.type = "DeviceFound"
  /\ handled.address \in device_deny_list
  /\ creating = {}

\* This step is a run of the Removed arm for an address without an index, or whose index
\* has no device in device_map.
RemovedUnknownHandled ==
  /\ EventHandled
  /\ Head(device_event_receiver).type = "Removed"
  /\ LET address == Head(device_event_receiver).address IN
       \/ address \notin DOMAIN device_index_map
       \/ device_index_map[address] \notin DOMAIN device_map

\* C11 as stated: a Removed for an address that has no index, or whose index has no
\* device in device_map, is dropped: nothing is broadcast, device_map and
\* device_index_map are unchanged, and the loop is still running afterwards.
C11_UnknownRemovedIsDropped ==
  [][ RemovedUnknownHandled =>
        /\ server_sender' = << >>
        /\ device_map' = device_map
        /\ device_index_map' = device_index_map
        /\ loop_state' = "running"
    ]_vars

\* This step is a run of handle_ping_timeout.
PingHandled == ping_pending /\ ~ping_pending'

\* C12: a ping timeout hands one StopDeviceCmd to every device that is in device_map and
\* leaves device_map, device_index_map and scanning_in_progress as they are, broadcasts
\* nothing and keeps the loop running; when one of the stops completes, with Ok or with
\* Err, the other stops stay in progress and the loop and its maps are untouched.
C12_PingTimeoutStopsEveryDevice ==
  [][ /\ PingHandled =>
           /\ \A i \in DOMAIN device_map :
                StopFuture(pings_fired, device_map[i]) \in stop_futures'
           /\ stop_futures \subseteq stop_futures'
           /\ device_map' = device_map
           /\ device_index_map' = device_index_map
           /\ scanning_in_progress' = scanning_in_progress
           /\ server_sender' = << >>
           /\ loop_state' = "running"
      /\ (stop_futures' # stop_futures /\ ~PingHandled) =>
           /\ stop_done'.fut \in stop_futures
           /\ stop_futures' = stop_futures \ {stop_done'.fut}
           /\ device_map' = device_map
           /\ device_index_map' = device_index_map
           /\ server_sender' = server_sender
           /\ loop_state' = loop_state
    ]_vars

\* C12 witness: the ping timeout found two devices in device_map; the stop of one has
\* failed, the stop of the other is still in progress, both devices are still in
\* device_map and the loop is running.
C12_Witness ==
  /\ Cardinality(DOMAIN device_map) = 2
  /\ stop_done.result = "err"
  /\ \E i, j \in DOMAIN device_map :
       /\ i # j
       /\ stop_done.fut = StopFuture(1, device_map[i])
       /\ stop_futures = { StopFuture(1, device_map[j]) }
  /\ loop_state = "running"

\* C13 as stated (its safety half): run has ended only if device_comm_receiver is closed
\* and drained; no ping timeout, device event or handler error ends it earlier.
C13_ExitsOnlyWhenCommClosed ==
  ~LoopAlive => (comm_closed /\ device_comm_receiver = << >>)

\* Some status registered through DeviceManagerAdded reads true.
SomeRegisteredStatusTrue ==
  \E i \in 1..Len(comm_manager_scanning_statuses) :
    scanning_status[comm_manager_scanning_statuses[i]]

\* C20: whenever ScanningFinished is broadcast, scanning_in_progress was true and every
\* registered scanning status read false; a ScanningFinished event handled while a
\* registered status is true changes neither scanning_in_progress nor the broadcasts.
C20_BroadcastOnlyWhenAllStatusesFalse ==
  [][ /\ Broadcast(ScanningFinishedMsg) =>
           /\ scanning_in_progress
           /\ ~SomeRegisteredStatusTrue
      /\ ( /\ CommHandled
           /\ Head(device_comm_receiver).type = "ScanningFinished"
           /\ SomeRegisteredStatusTrue )
         => /\ scanning_in_progress' = scanning_in_progress
            /\ server_sender' = << >>
    ]_vars

\* C20 witness: during a scan of two registered managers, the ScanningFinished of one
\* was handled while the status of the other was still true: nothing was broadcast and
\* the scan is still in progress.
C20_Witness ==
  /\ Len(comm_manager_scanning_statuses) = 2
  /\ handled.type = "ScanningFinished"
  /\ scanning_in_progress
  /\ server_sender = << >>
  /\ \E m, n \in Managers :
       /\ manager_state[m] = "idle"
       /\ manager_state[n] = "scanning"
       /\ scanning_status[n]

(***************************************************************************)
(* Properties of the Lovense HID dongle communication manager.             *)
(***************************************************************************)
\* C14 as stated: on a manager whose finder task found no dongle, start_scanning leaves
\* the scanning status false and no ScanningStarted is emitted.
C14_DonglelessStartScanningIsNoOp ==
  find_dongle = "failed" =>
    /\ ~is_scanning
    /\ "ScanningStarted" \notin Range(hid_events)

\* C15 as stated: when the dongle cannot be opened, the failure has been reported exactly
\* once as an error on the event channel, and DongleFound is never sent to the state
\* machine.
C15_MissingDongleReportedOnce ==
  find_dongle = "failed" =>
    /\ Cardinality({ i \in 1..Len(hid_events) : hid_events[i] = "Error" }) = 1
    /\ "DongleFound" \notin Range(machine_receiver)
    /\ machine = "WaitingForDongle"

\* The payload bytes (bytes 1 to 63) of the reports, concatenated.
RECURSIVE PayloadOf(_)
PayloadOf(reports) ==
  IF reports = << >>
    THEN << >>
    ELSE SubSeq(Head(reports), 2, 64) \o PayloadOf(Tail(reports))

\* C16: for an outbound message m of L bytes the reports written are 65 bytes each with
\* byte 0 and byte 64 zero; their payload bytes, concatenated, are at any moment the
\* beginning of m CR LF followed by zeros (every report but the last one is full); and
\* when the message is written there are exactly ceil((L+2)/63) reports, so that the
\* payload holds all of m CR LF.
C16_WriterFramesMessage ==
  LET L == Len(writer_msg)
      framed == writer_msg \o << 13, 10 >>
      payload == PayloadOf(hid_written)
  IN
    /\ \A k \in 1..Len(hid_written) :
         /\ Len(hid_written[k]) = 65
         /\ hid_written[k][1] = 0
         /\ hid_written[k][65] = 0
    /\ \A i \in 1..Len(payload) :
         payload[i] = IF i <= L + 2 THEN framed[i] ELSE 0
    /\ \A k \in 1..(Len(hid_written) - 1) : 63 * k < L + 2
    /\ (writer_pc = "waiting" /\ hid_written # << >>) =>
         /\ Len(hid_written) = (L + 2 + 62) \div 63
         /\ Len(payload) >= L + 2

\* C16 witness: a message of 62 bytes has been written: with CR LF it is 64 bytes long
\* and took two reports, the second of which carries the LF alone.
C16_Witness ==
  /\ writer_pc = "waiting"
  /\ Len(writer_msg) = 62
  /\ Len(hid_written) = 2
  /\ hid_written[2][2] = 10
  /\ hid_written[2][3] = 0

\* The complete records of a text: what stands before each newline.
RECURSIVE Records(_)
Records(text) ==
  IF ~ \E i \in 1..Len(text) : text[i] = 10
    THEN << >>
    ELSE LET first == CHOOSE i \in 1..Len(text) :
                        text[i] = 10 /\ \A j \in 1..(i - 1) : text[j] # 10
             record == SubSeq(text, 1, first - 1)
             rest == SubSeq(text, first + 1, Len(text))
         IN  << record >> \o Records(rest)

\* The messages of a sequence of records, in order.
RECURSIVE MessagesOf(_)
MessagesOf(records) ==
  IF records = << >> THEN << >>
  ELSE ParseStream(Head(records)) \o MessagesOf(Tail(records))

\* C17 as stated: whenever the reader is between reads, the messages it has forwarded
\* are the messages of the complete records of everything it has read so far, each once
\* and in order (a record may span reads, and what follows a newline in a read belongs
\* to the next record).
C17_EveryRecordForwardedOnce ==
  reader_pc \in {"checking", "reading"} =>
    forwarded = MessagesOf(Records(hid_consumed))

ThreadGone(thread_pc) == thread_pc \in {"exited", "panicked"}

\* C18 as stated: once the manager is dropped (its token cancelled) with the threads
\* running, both threads eventually end, whatever the state of the channels.
C18_ThreadsExitAfterDrop ==
  (token_cancelled /\ reader_pc # "not_started")
    ~> (ThreadGone(reader_pc) /\ ThreadGone(writer_pc))

(***************************************************************************)
(* Properties of run_server.                                               *)
(***************************************************************************)
RepliesTo(id) ==
  Cardinality({ i \in 1..Len(connector_sent) : connector_sent[i].id = id })

\* C19 as stated: while the connector stays open, every item run_server took from the
\* connector, a client message or a receive error, whose task has ended has exactly one
\* reply on the connector.
C19_EveryItemGetsOneReply ==
  connector_open =>
    \A id \in DOMAIN reply_tasks :
      reply_tasks[id].state # "running" => RepliesTo(id) = 1

(***************************************************************************)
(* Properties of the Lovehoney Desire handler.                             *)
(***************************************************************************)
IsPrefix(a, b) == Len(a) <= Len(b) /\ a = SubSeq(b, 1, Len(a))

\* This step is the update_vibration call of task t.
Updates(t) == pc[t] = "locked" /\ pc'[t] # "locked"

\* The command of task t asks every actuator it names for the value the cache holds.
MatchesCache(t) ==
  \A i \in DOMAIN call[t].msg :
    i \in Actuators /\ gcm_current[i] = Some(Quantize(call[t].msg[i]))

\* C6: a VibrateCmd whose quantized values all equal the values the command cache holds
\* when the handler consults it makes the handler return Ok with no transport write
\* issued and none pending.
C6_MatchingVibrateCmdWritesNothing ==
  [][ \A t \in Tasks :
        (Updates(t) /\ call[t].kind = "vibrate" /\ MatchesCache(t)) =>
          /\ pc'[t] = "done"
          /\ ret'[t] = "ok"
          /\ written'[t] = << >>
          /\ fut_vec'[t] = << >>
    ]_vars

\* C6 witness: after earlier commands set both motors to different non-zero values, a
\* VibrateCmd for those same values has returned Ok without a write.
C6_Witness ==
  \E t \in Tasks :
    /\ pc[t] = "done"
    /\ call[t].kind = "vibrate"
    /\ DOMAIN call[t].msg = Actuators
    /\ \A i \in Actuators : gcm_current[i] = Some(Quantize(call[t].msg[i]))
    /\ gcm_current[0] # gcm_current[1]
    /\ gcm_current[0] # Some(0)
    /\ gcm_current[1] # Some(0)
    /\ cmds[t].tag = "None"
    /\ ret[t] = "ok"
    /\ written[t] = << >>

\* C7: a StopDeviceCmd that returns Ok has produced at least one transport write, in
\* every state of the command cache.
C7_StopAlwaysWrites ==
  \A t \in Tasks :
    (pc[t] = "done" /\ call[t].kind = "stop" /\ ret[t] = "ok") => Len(written[t]) >= 1

\* update_vibration gave task t Some(vals) with every entry present and all equal.
AllPresentAndEqual(t) ==
  /\ cmds[t].tag = "Some"
  /\ \A i \in Actuators : cmds[t].vals[i] # None /\ cmds[t].vals[i] = cmds[t].vals[0]

\* C8: when update_vibration returns Some(vals) with every entry present and all equal
\* to q, the writes of the call (issued and still to be awaited) are the one write
\* [0xF3, 0x00, q]; once issued nothing is left, so no per-motor write follows.
C8_EqualValuesOneCombinedWrite ==
  \A t \in Tasks :
    AllPresentAndEqual(t) =>
      LET q == cmds[t].vals[0][1] IN
        /\ written[t] \o fut_vec[t] = << << 243, 0, q >> >>
        /\ pc[t] \in {"writing", "done"} => written[t] = << << 243, 0, q >> >>

\* C8 witness: a call that moved both motors to the same non-zero value has returned Ok
\* after its single write.
C8_Witness ==
  \E t \in Tasks :
    /\ pc[t] = "done"
    /\ ret[t] = "ok"
    /\ AllPresentAndEqual(t)
    /\ cmds[t].vals[0] # Some(0)
    /\ Len(written[t]) = 1

\* The actuators with a Some entry, and the k-th of them in ascending order.
PresentActuators(vals) == { i \in Actuators : vals[i] # None }
NthPresent(vals, k) ==
  CHOOSE i \in PresentActuators(vals) :
    Cardinality({ j \in PresentActuators(vals) : j < i }) = k - 1

\* One write [0xF3, i+1, q_i] per actuator i with vals[i] = Some(q_i), ascending.
PerMotorWrites(vals) ==
  [k \in 1..Cardinality(PresentActuators(vals)) |->
     << 243, NthPresent(vals, k) + 1, vals[NthPresent(vals, k)][1] >>]

\* C9: when update_vibration returns Some(vals) that is not the all-present-and-equal
\* case, the writes that reach the transport are, in ascending actuator order, the
\* writes [0xF3, i+1, q_i] of the actuators with a Some entry and nothing else: at any
\* moment a prefix of that list, the rest of the list still to be awaited unless a
\* write failed, and the whole list when the handler returns Ok.
C9_PerMotorWrites ==
  \A t \in Tasks :
    (cmds[t].tag = "Some" /\ ~AllPresentAndEqual(t)) =>
      /\ IsPrefix(written[t], PerMotorWrites(cmds[t].vals))
      /\ ret[t] # "err" => written[t] \o fut_vec[t] = PerMotorWrites(cmds[t].vals)
      /\ ret[t] = "ok" => written[t] = PerMotorWrites(cmds[t].vals)

\* C9 witness: one call changed both motors to different values and returned Ok after
\* two writes; another changed only motor 1 and returned Ok after the one write to it.
C9_Witness ==
  /\ pc[1] = "done" /\ ret[1] = "ok"
  /\ cmds[1].tag = "Some"
  /\ PresentActuators(cmds[1].vals) = Actuators
  /\ cmds[1].vals[0] # cmds[1].vals[1]
  /\ Len(written[1]) = 2
  /\ pc[2] = "done" /\ ret[2] = "ok"
  /\ cmds[2].tag = "Some"
  /\ PresentActuators(cmds[2].vals) = {1}
  /\ written[2] = << << 243, 2, cmds[2].vals[1][1] >> >>

\* Task t updated the command cache before task u (both calls still have writes to do
\* or in flight).
UpdatedBefore(t, u) ==
  \E i, j \in 1..Len(update_order) :
    i < j /\ update_order[i] = t /\ update_order[j] = u

\* C10 as stated: of two concurrent calls, every write of the call that updated the
\* command cache first reaches the transport before any write of the other call.
C10_WritesInIssueOrder ==
  \A t, u \in Tasks :
    (UpdatedBefore(t, u) /\ fut_vec[t] # << >>) => written[u] = << >>

\* C10 as amended: only the cache update is serialized. At most one call holds the lock,
\* and only for its update_vibration call (never while it has a write pending or in
\* flight); each call's own writes reach the transport in the order the handler queued
\* them. Writes of two concurrent calls may interleave.
C10_UpdatesSerializedWritesOrderedPerCall ==
  /\ \A t \in Tasks : pc[t] = "locked" <=> gcm_lock = t
  /\ \A t \in Tasks :
       cmds[t].tag # "NoResult" =>
         /\ IsPrefix(written[t], HandlerWrites(cmds[t]))
         /\ ret[t] # "err" => written[t] \o fut_vec[t] = HandlerWrites(cmds[t])

\* C10 witness: task 1 updated the cache first and has issued one of its two writes;
\* task 2, which updated the cache later, already has a write at the transport.
C10_Witness ==
  /\ update_order = << 1, 2 >>
  /\ Len(written[1]) = 1
  /\ fut_vec[1] # << >>
  /\ written[2] # << >>


\* C21: the command-cache lock is never held by a call that has a write pending or in
\* flight, so a call waiting for a slow write leaves the lock to the other calls: the
\* lock is free or with a call that is between lock() and the end of update_vibration.
C21_LockNotHeldAcrossWrites ==
  \A t \in Tasks :
    pc[t] \in {"write", "writing"} =>
      /\ gcm_lock # t
      /\ \A u \in Tasks \ {t} : gcm_lock = u => pc[u] = "locked"

\* C21 witness: while the write of task 1 is in flight, task 2 has taken the lock.
C21_Witness ==
  /\ pc[1] = "writing"
  /\ pc[2] = "locked"
  /\ gcm_lock = 2

\* C22 as stated, for commands that arrive one at a time: when a write of a command
\* failed (the handler returned the error), the cache does not hold the values of that
\* command for every actuator it names, so that the same command sent again is not a
\* no-op.
C22_FailedCommandIsNotCached ==
  (pc[1] = "done" /\ ret[1] = "err" /\ cmds[1].tag = "Some") => ~MatchesCache(1)

\* update_vibration gave task t Some(vals) for the per-motor branch.
PerMotorCase(t) == cmds[t].tag = "Some" /\ ~AllPresentAndEqual(t)

\* C23: in the per-motor case a write begins only when no earlier write of the call is
\* in flight, and every earlier one completed with Ok; the handler returns Ok only when
\* every write of the call has completed; and a write that fails makes the handler
\* return the error with no later write of the call issued.
C23_PerMotorWritesSequential ==
  [][ \A t \in Tasks :
        PerMotorCase(t) =>
          /\ (Len(written'[t]) > Len(written[t]) /\ written[t] # << >>) =>
               (pc[t] = "write" /\ ret[t] = "pending")
          /\ (ret'[t] = "ok" /\ ret[t] # "ok") =>
               (pc[t] = "writing" /\ written[t] = PerMotorWrites(cmds[t].vals))
          /\ (pc[t] = "writing" /\ ret'[t] = "err") =>
               (pc'[t] = "done" /\ written'[t] = written[t] /\ fut_vec'[t] = << >>)
          /\ (ret[t] = "err" /\ cmds'[t] = cmds[t]) => written'[t] = written[t]
    ]_vars

\* C23 witness: a call with two per-motor writes returned the error of its first write
\* and issued no second write.
C23_Witness ==
  \E t \in Tasks :
    /\ pc[t] = "done"
    /\ ret[t] = "err"
    /\ PerMotorCase(t)
    /\ Cardinality(PresentActuators(cmds[t].vals)) = 2
    /\ Len(written[t]) = 1


\* The actuators whose cached value is not zero, and the k-th of them in ascending order.
NotCachedZero == { i \in Actuators : gcm_current[i] # << 0 >> }
NthNotCachedZero(k) ==
  CHOOSE i \in NotCachedZero : Cardinality({ j \in NotCachedZero : j < i }) = k - 1

\* The zero writes for the actuators not cached as zero: one write [0xF3, i+1, 0] each,
\* or the single write [0xF3, 0, 0] to both motors when none of them is cached as zero.
StopWrites ==
  IF NotCachedZero = Actuators
    THEN << << 243, 0, 0 >> >>
    ELSE [k \in 1..Cardinality(NotCachedZero) |-> << 243, NthNotCachedZero(k) + 1, 0 >>]

\* C24: a StopDeviceCmd goes through the change detection of the command cache as a
\* VibrateCmd with every speed zero: the writes it queues are zero writes for exactly
\* the actuators whose cached value is not already zero, it does not fail, and
\* afterwards every actuator is cached as zero.
C24_StopWritesZeroWhereNotZero ==
  [][ \A t \in Tasks :
        (Updates(t) /\ call[t].kind = "stop") =>
          /\ fut_vec'[t] = StopWrites
          /\ ret'[t] # "err"
          /\ \A i \in Actuators : gcm_current'[i] = << 0 >>
    ]_vars

\* C24 witness: with motor 0 cached as zero and motor 1 as non-zero, a StopDeviceCmd has
\* returned Ok after the single write [0xF3, 0x02, 0x00].
C24_Witness ==
  /\ pc[1] = "done"
  /\ call[1].kind = "stop"
  /\ ret[1] = "ok"
  /\ cmds[1].vals[0] = None
  /\ written[1] = << << 243, 2, 0 >> >>
  /\ \A i \in Actuators : gcm_current[i] = << 0 >>


(***************************************************************************)
(* Further properties of the device manager event loop.                    *)
(***************************************************************************)
\* C25 as stated: the index counter has advanced once per address in device_index_map,
\* and the indices of the addresses are 0, 1, 2, ... without gaps.
C25_IndicesWithoutGaps ==
  /\ device_index_generator = Cardinality(DOMAIN device_index_map)
  /\ { device_index_map[a] : a \in DOMAIN device_index_map } =
       0..(Cardinality(DOMAIN device_index_map) - 1)

\* This step handles the Connected event of a device whose index is occupied in device_map.
ConnectedWithCollision ==
  /\ loop_state = "running"
  /\ EventHandled
  /\ Head(device_event_receiver).type = "Connected"
  /\ Head(device_event_receiver).address \in DOMAIN device_index_map
  /\ device_index_map[Head(device_event_receiver).address] \in DOMAIN device_map

\* C26 as stated: when a Connected device gets an index that is occupied in device_map,
\* the old device is removed and disconnected, and the clients are sent DeviceRemoved
\* for the old device before DeviceAdded for the new one: DeviceRemoved by the time the
\* old device is disconnected, DeviceAdded when the new device is inserted.
C26_RemovedBroadcastBeforeAdded ==
  [][ /\ ConnectedWithCollision =>
           LET index == device_index_map[Head(device_event_receiver).address] IN
             /\ index \notin DOMAIN device_map'
             /\ device_map[index] \in disconnected'
             /\ server_sender' = << DeviceRemovedMsg(index) >>
      /\ ConnectedResumed =>
           LET index == device_index_map[handled.address] IN
             /\ device_map'[index] = Device(handled.id, handled.address)
             /\ server_sender' = << DeviceAddedMsg(index) >>
    ]_vars

\* C27 as stated: a device leaves device_map only when it has itself disconnected (its
\* transport dropped the connection, or a newer device took its index and disconnected
\* it), and a DeviceRemoved broadcast is made only for such a device; the Removed event
\* of an older device never removes a device that is still connected.
C27_DeviceStaysUntilItsOwnRemoval ==
  [][ \A i \in DOMAIN device_map :
        (i \notin DOMAIN device_map' \/ device_map'[i] # device_map[i]) =>
          device_map[i] \in disconnected'
    ]_vars


\* Every transport has ended its scan, if it ran one: its status is false and its
\* ScanningFinished event is sent.
TransportsFinished ==
  \A m \in Managers : manager_state[m] \in {"absent", "idle"} /\ start_commands[m] = 0

\* C28: with the comm channel served, if from some moment on every registered transport
\* has set its scanning status to false and sent its ScanningFinished event, then from
\* some moment on scanning_in_progress is false: the session open at that time is closed
\* (by the broadcast of ScanningFinished, the only way it closes), none stays open forever.
C28_ScanSessionEventuallyCloses ==
  (<>[]TransportsFinished) => <>[](~scanning_in_progress)

\* C28 witness: two transports ran a scan; the ScanningFinished event of one was handled
\* while the other was still scanning, and the event of the other has now closed the
\* session with the broadcast.
C28_Witness ==
  /\ Len(comm_manager_scanning_statuses) = 2
  /\ TransportsFinished
  /\ \A m \in Managers : manager_state[m] = "idle"
  /\ device_comm_receiver = << >>
  /\ handled.type = "ScanningFinished"
  /\ server_sender = << ScanningFinishedMsg >>
  /\ ~scanning_in_progress


(***************************************************************************)
(* Further properties of run_server.                                       *)
(***************************************************************************)
\* The server events among the messages sent on the connector, in order.
EventsSent(sent) == SelectSeq(sent, LAMBDA m : m.type = "Event")

\* A reason for run_server to leave its loop: the connector stream is closed and read to
\* its end, a controller command has arrived or the controller channel is closed, the
\* server event stream is closed and read to its end, or there is a server event to
\* forward and the connector's send fails.
ConnectorStreamEnded == ~connector_open /\ connector_receiver = << >>
ControllerSpoke == controller # "idle"
ServerStreamEnded == server_closed /\ server_receiver = << >>
ForwardingFails == remote_loop = "forwarding" /\ ~connector_open

\* C29: run_server leaves its loop only for one of the four reasons, and when one of
\* them holds it does leave; it has called server.disconnect() exactly once when it has
\* left and never before; after leaving it forwards no further server event; and the
\* server events on the connector are the first events of the server, in their order.
C29_RunServerExit ==
  /\ [](disconnect_calls = IF remote_loop = "exited" THEN 1 ELSE 0)
  /\ [](\A k \in 1..Len(EventsSent(connector_sent)) :
          EventsSent(connector_sent)[k].seq = k)
  /\ [][ /\ (remote_loop # "exited" /\ remote_loop' = "exited") =>
              \/ ConnectorStreamEnded
              \/ ControllerSpoke
              \/ ServerStreamEnded
              \/ ForwardingFails
         /\ remote_loop = "exited" =>
              /\ remote_loop' = "exited"
              /\ EventsSent(connector_sent') = EventsSent(connector_sent)
       ]_vars
  /\ ConnectorStreamEnded ~> (remote_loop = "exited")
  /\ ControllerSpoke ~> (remote_loop = "exited")
  /\ ServerStreamEnded ~> (remote_loop = "exited")
  /\ ForwardingFails ~> (remote_loop = "exited")

\* C29 witness: run_server forwarded the first server event, could not forward the second
\* one and left its loop, with a client item still unread, the controller silent and the
\* server stream open; it has disconnected the server once.
C29_Witness ==
  /\ remote_loop = "exited"
  /\ disconnect_calls = 1
  /\ events_made = 2
  /\ Len(EventsSent(connector_sent)) = 1
  /\ server_receiver = << >>
  /\ connector_receiver # << >>
  /\ controller = "idle"
  /\ ~server_closed

=============================================================================
